---- MODULE Spec2Model ----
(***************************************************************************)
(* Verification model of network-monitor.                                  *)
(*                                                                         *)
(* Part I  : the telemetry client (client/main.go) together with the       *)
(*           start/stop life cycle of the measurement engine               *)
(*           (bandwidthmonitor: BandwidthMonitor.Start / Stop).            *)
(* Part II : the collector's session registry (server/server/quic.go).     *)
(* Part III: the measurement engine's counters and samples                 *)
(*           (bandwidthmonitor: BandwidthStats.Update / CalculateSpeeds).  *)
(* Part IV : one client connection from the reporter in main to the        *)
(*           collector's database (sendData, handleConnection).            *)
(*                                                                         *)
(* Client time is counted in units of 100 ms.  A time.Time field is only   *)
(* ever used by the client in the form now.Sub(field) < d, so every such   *)
(* field is represented by its age now - field, saturated at the largest   *)
(* duration it is compared with.  Server time is counted in minutes.       *)
(***************************************************************************)
EXTENDS Integers, Sequences, FiniteSets, TLC

(***************************************************************************)
(* Program constants of the client (units of 100 ms, or counts).           *)
(***************************************************************************)
\* sendData: minimum spacing of two sends, 500 * time.Millisecond
SendSpacing == 5
\* handleFailure: if c.failureCount >= 5
FailureThreshold == 5
\* tryReconnect: for i := 0; i < 5; i++
VerifyProbes == 5
\* tryReconnect: time.Sleep(2 * time.Second)
WarmupTime == 20
\* tryReconnect: time.Sleep(time.Second)
ProbeGap == 10
\* config.Init: default Monitor.SampleInterval, 500 * time.Millisecond
SampleInterval == 5

Min(a, b) == IF a < b THEN a ELSE b

VARIABLES
    client,      \* the Client struct, its BandwidthMonitor and the process status
    pc,          \* position of the main goroutine
    probeIdx,    \* loop variable i of tryReconnect
    sleepLeft,   \* remaining time of the time.Sleep the main goroutine is in
    prevCall,    \* what the sendData call before the last one did
    lastCall,    \* what the last sendData call did
    callGap,     \* time between those two calls (saturated at SendSpacing)
    sinceCall,   \* time since the last sendData call (saturated at SendSpacing)
    sinceSent,   \* time since the last sample went out without error (saturated)
    failsSince,  \* send failures since the last successful send or connect
    lastEvent,   \* the last step of the main goroutine
    sinceCalc    \* age of bs.LastUpdate (saturated at SampleInterval)

clientVars == <<client, pc, probeIdx, sleepLeft, prevCall, lastCall, callGap,
                sinceCall, sinceSent, failsSince, lastEvent, sinceCalc>>

VARIABLES
    clients,     \* QuicServer.clients: clientID -> ClientConnection
    connState,   \* every connection the listener hands out: its status
    handler,     \* the handleConnection goroutine of each connection
    sweep,       \* the checkClientsStatus goroutine
    sweepDue,    \* its ticker has a tick waiting
    registered,  \* database: the clients RegisterClient has stored
    saved,       \* database: the samples SaveBandwidthData has stored
    lastStream,  \* what handleStream did, if the last step was a handleStream
    ctx,         \* QuicServer.ctx: "live" or "cancelled"
    acceptor,    \* the accept loop of Start and the connection it holds
    stopper,     \* the goroutine that calls Stop
    wg,          \* QuicServer.connections, the WaitGroup's counter
    clock,       \* time.Now() on the collector, in instants
    pending,     \* per handler: a time.Now() taken for LastSeen, not yet
                 \* assigned
    lastSeenAt   \* per clientID: LastSeen of its registry entry, as an
                 \* instant of clock

\* Stop and what it synchronises with
stopVars == <<ctx, acceptor, stopper, wg>>
\* LastSeen at the resolution of single instants
refreshVars == <<clock, pending, lastSeenAt>>

serverVars == <<clients, connState, handler, sweep, sweepDue, registered,
                saved, lastStream, stopVars, refreshVars>>

VARIABLES
    bs,          \* the BandwidthStats object
    mutex,       \* bs.mutex: "free", or the task that holds it
    packetTask,  \* the packet goroutine of Start and the frame it handles
    tickTask,    \* the statistics goroutine of Start, inside CalculateSpeeds
    fed,         \* bytes and packets Update has added to the counters
    pub,         \* bytes and packets CalculateSpeeds has turned into samples
    frameCount,  \* frames taken from the packet source
    tickCount,   \* CalculateSpeeds invocations begun
    lastCalc     \* the CalculateSpeeds invocation that has just returned

statsVars == <<bs, mutex, packetTask, tickTask, fed, pub, frameCount,
               tickCount, lastCalc>>

VARIABLES
    wire,        \* streams the client has written on its connection and the
                 \* collector has not accepted yet, oldest first
    built,       \* samples the dataTicker case has built
    fate,        \* per sample: what sendData did with it
    persisted    \* the SaveBandwidthData calls in the order made: the sample
                 \* and whether it was stored

\* the way of a sample from the client to the collector's database
linkVars == <<wire, built, fate, persisted>>

VARIABLES
    reporter,    \* the dataTicker case of main reading bm.GetStats()
    pubCount,    \* CalculateSpeeds invocations that have published
    probe        \* a function of the measurement engine applied to an input

sideVars == <<reporter, pubCount, probe>>

vars == <<clientVars, serverVars, statsVars, linkVars, sideVars>>

\* no function applied yet
NoProbe == [fn |-> "none"]
\* main at its select, no BandwidthData under construction
IdleReporter == [pc |-> "idle", data |-> << >>, from |-> << >>]

(***************************************************************************)
(* BandwidthMonitor: stopChan and the goroutines Start spawns.             *)
(***************************************************************************)
\* NewBandwidthMonitor: stopChan is made once, here, and nowhere else.
NewBandwidthMonitor == [stopChan |-> "open", tickTasks |-> 0, packetTasks |-> 0]

\* NewClient: no connection, not monitoring, lastSendTime the zero time
\* (its age is beyond every spacing), failureCount 0.
NewClient ==
    [conn         |-> "nil",
     liveConns    |-> 0,
     failureCount |-> 0,
     isMonitoring |-> FALSE,
     sinceSend    |-> SendSpacing,
     monitor      |-> NewBandwidthMonitor,
     panicked     |-> FALSE]

\* BandwidthMonitor.Start: spawns the statistics goroutine (ticker / stopChan
\* select) and the packet goroutine; it does not touch stopChan.
MonitorStart(c) ==
    [c EXCEPT !.monitor.tickTasks = @ + 1, !.monitor.packetTasks = @ + 1]

\* BandwidthMonitor.Stop: close(bm.stopChan); closing a closed channel panics.
MonitorStop(c) ==
    IF c.monitor.stopChan = "closed"
    THEN [c EXCEPT !.panicked = TRUE]
    ELSE [c EXCEPT !.monitor.stopChan = "closed"]

(***************************************************************************)
(* Client methods.  Each takes the process state and returns the state     *)
(* after the call; a panic inside a callee ends the caller at once.        *)
(***************************************************************************)
startMonitoring(c) == [MonitorStart(c) EXCEPT !.isMonitoring = TRUE]

stopMonitoring(c) ==
    IF c.isMonitoring
    THEN LET s == MonitorStop(c) IN
         IF s.panicked THEN s ELSE [s EXCEPT !.isMonitoring = FALSE]
    ELSE c

\* if c.conn != nil { c.conn.CloseWithError(...); c.conn = nil }
closeConn(c) ==
    IF c.conn # "nil"
    THEN [c EXCEPT !.conn = "nil", !.liveConns = @ - 1]
    ELSE c

\* connect with the close of the dialled connection forgotten when the probe
\* stream fails
connect_LeaksOnStreamFailure(c, dialOk, streamOk) ==
    LET c0 == closeConn(c) IN
    IF ~dialOk THEN [st |-> c0, err |-> TRUE]
    ELSE IF ~streamOk
         THEN [st |-> [c0 EXCEPT !.liveConns = @ + 1], err |-> TRUE]
         ELSE [st  |-> [c0 EXCEPT !.conn = "open", !.liveConns = @ + 1,
                                  !.failureCount = 0],
               err |-> FALSE]

\* connect: dialOk is the outcome of quic.DialAddr, streamOk that of the
\* probe stream conn.OpenStreamSync.
connect(c, dialOk, streamOk) ==
    LET c0 == closeConn(c) IN
    IF ~dialOk THEN [st |-> c0, err |-> TRUE]
    ELSE IF ~streamOk
         \* the dialled connection is closed again: conn.CloseWithError
         THEN [st |-> c0, err |-> TRUE]
         ELSE [st  |-> [c0 EXCEPT !.conn = "open", !.liveConns = @ + 1,
                                  !.failureCount = 0],
               err |-> FALSE]

\* a failure handling that stops monitoring at the threshold and keeps the
\* connection
handleFailure_KeepsConnection(c) ==
    LET c1 == [c EXCEPT !.failureCount = @ + 1] IN
    IF c1.failureCount >= FailureThreshold
    THEN stopMonitoring(c1)
    ELSE c1

\* handleFailure: c.failureCount++; at 5, stopMonitoring and the connection
\* is closed and set to nil
handleFailure(c) ==
    LET c1 == [c EXCEPT !.failureCount = @ + 1] IN
    IF c1.failureCount >= FailureThreshold
    THEN LET c2 == stopMonitoring(c1) IN
         IF c2.panicked THEN c2 ELSE closeConn(c2)
    ELSE c1

\* sendData without the 500 ms spacing test
sendData_NoSpacing(c, openOk, writeOk) ==
    IF ~c.isMonitoring \/ c.conn = "nil"
    THEN [st |-> c, opened |-> FALSE, written |-> FALSE, err |-> FALSE,
          path |-> "idle"]
    ELSE IF ~openOk
    THEN [st |-> handleFailure(c), opened |-> FALSE, written |-> FALSE,
          err |-> TRUE, path |-> "failed"]
    ELSE IF ~writeOk
    THEN [st |-> handleFailure(c), opened |-> TRUE, written |-> TRUE,
          err |-> TRUE, path |-> "failed"]
    ELSE [st |-> [c EXCEPT !.failureCount = 0, !.sinceSend = 0],
          opened |-> TRUE, written |-> TRUE, err |-> FALSE, path |-> "sent"]

\* sendData counting a call inside the spacing window as a failure
sendData_DropIsFailure(c, openOk, writeOk) ==
    IF ~c.isMonitoring \/ c.conn = "nil"
    THEN [st |-> c, opened |-> FALSE, written |-> FALSE, err |-> FALSE,
          path |-> "idle"]
    ELSE IF c.sinceSend < SendSpacing
    THEN [st |-> handleFailure(c), opened |-> FALSE, written |-> FALSE,
          err |-> TRUE, path |-> "dropped"]
    ELSE IF ~openOk
    THEN [st |-> handleFailure(c), opened |-> FALSE, written |-> FALSE,
          err |-> TRUE, path |-> "failed"]
    ELSE IF ~writeOk
    THEN [st |-> handleFailure(c), opened |-> TRUE, written |-> TRUE,
          err |-> TRUE, path |-> "failed"]
    ELSE [st |-> [c EXCEPT !.failureCount = 0, !.sinceSend = 0],
          opened |-> TRUE, written |-> TRUE, err |-> FALSE, path |-> "sent"]

\* sendData whose success leaves the failure counter alone
sendData_NoReset(c, openOk, writeOk) ==
    IF ~c.isMonitoring \/ c.conn = "nil"
    THEN [st |-> c, opened |-> FALSE, written |-> FALSE, err |-> FALSE,
          path |-> "idle"]
    ELSE IF c.sinceSend < SendSpacing
    THEN [st |-> c, opened |-> FALSE, written |-> FALSE, err |-> FALSE,
          path |-> "dropped"]
    ELSE IF ~openOk
    THEN [st |-> handleFailure(c), opened |-> FALSE, written |-> FALSE,
          err |-> TRUE, path |-> "failed"]
    ELSE IF ~writeOk
    THEN [st |-> handleFailure(c), opened |-> TRUE, written |-> TRUE,
          err |-> TRUE, path |-> "failed"]
    ELSE [st |-> [c EXCEPT !.sinceSend = 0],
          opened |-> TRUE, written |-> TRUE, err |-> FALSE, path |-> "sent"]

\* sendData setting lastSendTime on a failed send too
sendData_FailureRestartsSpacing(c, openOk, writeOk) ==
    IF ~c.isMonitoring \/ c.conn = "nil"
    THEN [st |-> c, opened |-> FALSE, written |-> FALSE, err |-> FALSE,
          path |-> "idle"]
    ELSE IF c.sinceSend < SendSpacing
    THEN [st |-> c, opened |-> FALSE, written |-> FALSE, err |-> FALSE,
          path |-> "dropped"]
    ELSE IF ~openOk
    THEN [st |-> [handleFailure(c) EXCEPT !.sinceSend = 0],
          opened |-> FALSE, written |-> FALSE, err |-> TRUE,
          path |-> "failed"]
    ELSE IF ~writeOk
    THEN [st |-> [handleFailure(c) EXCEPT !.sinceSend = 0],
          opened |-> TRUE, written |-> TRUE, err |-> TRUE,
          path |-> "failed"]
    ELSE [st |-> [c EXCEPT !.failureCount = 0, !.sinceSend = 0],
          opened |-> TRUE, written |-> TRUE, err |-> FALSE, path |-> "sent"]

\* sendData: openOk is the outcome of conn.OpenStreamSync, writeOk that of
\* json.NewEncoder(stream).Encode.  The result says what the call did:
\* whether it opened a stream, whether it wrote to it, whether it returned
\* an error.
sendData(c, openOk, writeOk) ==
    IF ~c.isMonitoring \/ c.conn = "nil"
    THEN [st |-> c, opened |-> FALSE, written |-> FALSE, err |-> FALSE,
          path |-> "idle"]
    ELSE IF c.sinceSend < SendSpacing
    THEN [st |-> c, opened |-> FALSE, written |-> FALSE, err |-> FALSE,
          path |-> "dropped"]
    ELSE IF ~openOk
    THEN [st |-> handleFailure(c), opened |-> FALSE, written |-> FALSE,
          err |-> TRUE, path |-> "failed"]
    ELSE IF ~writeOk
    THEN [st |-> handleFailure(c), opened |-> TRUE, written |-> TRUE,
          err |-> TRUE, path |-> "failed"]
    ELSE [st |-> [c EXCEPT !.failureCount = 0, !.sinceSend = 0],
          opened |-> TRUE, written |-> TRUE, err |-> FALSE, path |-> "sent"]

\* stop: deferred by main, runs when main returns.
stop(c) ==
    LET c1 == stopMonitoring(c) IN
    IF c1.panicked THEN c1 ELSE closeConn(c1)

\* tryReconnect, failure branch of a verification probe.
abortVerification(c) ==
    LET c1 == stopMonitoring(c) IN
    IF c1.panicked THEN c1 ELSE closeConn(c1)

(***************************************************************************)
(* What an observer at the network sees of the client.  None of this is    *)
(* read by the client's code; it is computed from the outcomes of the      *)
(* network operations only.                                                *)
(***************************************************************************)
NoCall == [by |-> "none", path |-> "none", opened |-> FALSE,
           written |-> FALSE, err |-> FALSE, sentAge |-> SendSpacing,
           fails |-> 0]

\* One sendData call: who made it, the branch it took, whether it opened a
\* stream, wrote to it, returned an error, how long before it the last
\* sample had gone out, and how many calls had failed since then.
CallRecord(by, r) ==
    [by |-> by, path |-> r.path, opened |-> r.opened, written |-> r.written,
     err |-> r.err, sentAge |-> sinceSent, fails |-> failsSince]

\* The observer's history: the last two calls, their distance, the time since
\* the last sample that went out without error, and the number of calls that
\* returned an error since then.
ObserveCall(by, r) ==
    /\ prevCall' = lastCall
    /\ lastCall' = CallRecord(by, r)
    /\ callGap' = sinceCall
    /\ sinceCall' = 0
    /\ sinceSent' = IF r.written /\ ~r.err THEN 0 ELSE sinceSent
    /\ failsSince' = IF r.err THEN failsSince + 1
                     ELSE IF r.written THEN 0
                     ELSE failsSince

NoCallObserved == UNCHANGED <<prevCall, lastCall, callGap, sinceCall, sinceSent>>

\* What the network did to a connect(): nothing was tried, the dial failed,
\* the probe stream failed, or both worked.
NetOutcome(dialOk, streamOk) ==
    IF ~dialOk THEN "dial failed"
    ELSE IF ~streamOk THEN "stream failed"
    ELSE "ok"

Event(ev, net) == [ev |-> ev, net |-> net]

\* Where the main goroutine is after a call that may have panicked.
After(c, next) == IF c.panicked THEN "panic" ELSE next

(***************************************************************************)
(* Actions of the client process.                                          *)
(***************************************************************************)
ClientInit ==
    /\ client = NewClient
    /\ pc = "start"
    /\ probeIdx = 0
    /\ sleepLeft = 0
    /\ prevCall = NoCall
    /\ lastCall = NoCall
    /\ callGap = SendSpacing
    /\ sinceCall = SendSpacing
    /\ sinceSent = SendSpacing
    /\ failsSince = 0
    /\ lastEvent = Event("none", "none")
    /\ sinceCalc = 0

\* main: the first connect; monitoring starts only if it succeeds.
FirstConnectStep ==
    /\ pc = "start"
    /\ \E dialOk \in BOOLEAN, streamOk \in BOOLEAN :
          LET r == connect(client, dialOk, streamOk) IN
          /\ client' = IF r.err THEN r.st ELSE startMonitoring(r.st)
          /\ failsSince' = IF dialOk /\ streamOk THEN 0 ELSE failsSince
          /\ lastEvent' = Event("first", NetOutcome(dialOk, streamOk))
    /\ pc' = "select"
    /\ NoCallObserved
    /\ UNCHANGED <<probeIdx, sleepLeft, sinceCalc>>
    /\ UNCHANGED <<serverVars, statsVars, sideVars>>

FirstConnect == FirstConnectStep /\ UNCHANGED linkVars

\* main, case <-dataTicker.C.  GetStats returns bm.stats, which is never nil.
DataStep ==
    /\ pc = "select"
    /\ lastEvent' = Event("data", "none")
    /\ IF ~client.isMonitoring
       THEN /\ UNCHANGED <<client, pc, failsSince>>
            /\ NoCallObserved
       ELSE \E openOk \in BOOLEAN, writeOk \in BOOLEAN :
               LET r == sendData(client, openOk, writeOk) IN
               /\ client' = r.st
               /\ pc' = After(r.st, "select")
               /\ ObserveCall("report", r)
    /\ UNCHANGED <<probeIdx, sleepLeft, sinceCalc>>
    /\ UNCHANGED <<serverVars, statsVars, sideVars>>

DataTick == DataStep /\ UNCHANGED linkVars

\* the reconnect tick without its test of client.isMonitoring
ReconnectTick_Unguarded ==
    /\ pc = "select"
    /\ \E dialOk \in BOOLEAN, streamOk \in BOOLEAN :
          LET r == connect(client, dialOk, streamOk) IN
          /\ lastEvent' = Event("reconnect", NetOutcome(dialOk, streamOk))
          /\ IF r.err
             THEN /\ client' = r.st
                  /\ UNCHANGED <<pc, probeIdx, sleepLeft, failsSince>>
             ELSE /\ client' = startMonitoring(r.st)
                  /\ pc' = "warmup"
                  /\ sleepLeft' = WarmupTime
                  /\ probeIdx' = 0
                  /\ failsSince' = 0
    /\ NoCallObserved
    /\ UNCHANGED sinceCalc
    /\ UNCHANGED <<serverVars, statsVars, linkVars, sideVars>>

\* main, case <-reconnectTicker.C: if !client.isMonitoring, tryReconnect,
\* here up to its first Sleep.
ReconnectTick ==
    /\ pc = "select"
    /\ IF client.isMonitoring
       THEN /\ lastEvent' = Event("reconnect", "none")
            /\ UNCHANGED <<client, pc, probeIdx, sleepLeft, failsSince>>
       ELSE \E dialOk \in BOOLEAN, streamOk \in BOOLEAN :
               LET r == connect(client, dialOk, streamOk) IN
               /\ lastEvent' = Event("reconnect", NetOutcome(dialOk, streamOk))
               /\ IF r.err
                  THEN /\ client' = r.st
                       /\ UNCHANGED <<pc, probeIdx, sleepLeft, failsSince>>
                  ELSE /\ client' = startMonitoring(r.st)
                       /\ pc' = "warmup"
                       /\ sleepLeft' = WarmupTime
                       /\ probeIdx' = 0
                       /\ failsSince' = IF dialOk /\ streamOk THEN 0
                                        ELSE failsSince
    /\ NoCallObserved
    /\ UNCHANGED sinceCalc
    /\ UNCHANGED <<serverVars, statsVars, linkVars, sideVars>>

\* tryReconnect: the 2 s warm-up is over, the probe loop starts.
WarmupDone ==
    /\ pc = "warmup"
    /\ sleepLeft = 0
    /\ pc' = "probe"
    /\ lastEvent' = Event("warmup", "none")
    /\ NoCallObserved
    /\ UNCHANGED <<client, probeIdx, sleepLeft, failsSince, sinceCalc>>
    /\ UNCHANGED <<serverVars, statsVars, linkVars, sideVars>>

\* tryReconnect: one iteration of the probe loop up to its Sleep.
Probe ==
    /\ pc = "probe"
    /\ lastEvent' = Event("probe", "none")
    /\ \E openOk \in BOOLEAN, writeOk \in BOOLEAN :
          LET r == sendData(client, openOk, writeOk) IN
          /\ ObserveCall("probe", r)
          /\ IF r.st.panicked
             THEN /\ client' = r.st
                  /\ pc' = "panic"
                  /\ UNCHANGED sleepLeft
             ELSE IF r.err
             THEN /\ client' = abortVerification(r.st)
                  /\ pc' = After(abortVerification(r.st), "select")
                  /\ UNCHANGED sleepLeft
             ELSE /\ client' = r.st
                  /\ pc' = "gap"
                  /\ sleepLeft' = ProbeGap
    /\ UNCHANGED <<probeIdx, sinceCalc>>
    /\ UNCHANGED <<serverVars, statsVars, linkVars, sideVars>>

\* tryReconnect: the 1 s Sleep after a probe is over; i++ and the loop test;
\* after the last probe tryReconnect returns true.
GapDone ==
    /\ pc = "gap"
    /\ sleepLeft = 0
    /\ probeIdx' = probeIdx + 1
    /\ pc' = IF probeIdx + 1 < VerifyProbes THEN "probe" ELSE "select"
    /\ lastEvent' = Event("gap", "none")
    /\ NoCallObserved
    /\ UNCHANGED <<client, sleepLeft, failsSince, sinceCalc>>
    /\ UNCHANGED <<serverVars, statsVars, linkVars, sideVars>>

\* main, case <-quit: main returns and the deferred client.stop() runs.
Quit ==
    /\ pc = "select"
    /\ client' = stop(client)
    /\ pc' = After(stop(client), "exit")
    /\ lastEvent' = Event("quit", "none")
    /\ NoCallObserved
    /\ UNCHANGED <<probeIdx, sleepLeft, failsSince, sinceCalc>>
    /\ UNCHANGED <<serverVars, statsVars, linkVars, sideVars>>

\* 100 ms pass while the main goroutine waits in select or sleeps.
Advance ==
    /\ pc \in {"select", "warmup", "gap"}
    /\ client' = [client EXCEPT !.sinceSend = Min(SendSpacing, @ + 1)]
    /\ sinceCall' = Min(SendSpacing, sinceCall + 1)
    /\ sinceSent' = Min(SendSpacing, sinceSent + 1)
    /\ sinceCalc' = Min(SampleInterval, sinceCalc + 1)
    /\ sleepLeft' = IF sleepLeft > 0 THEN sleepLeft - 1 ELSE 0
    /\ UNCHANGED <<pc, probeIdx, prevCall, lastCall, callGap, failsSince,
                   lastEvent>>
    /\ UNCHANGED <<serverVars, statsVars, linkVars, sideVars>>

\* The statistics goroutine of Start, case <-ticker.C: CalculateSpeeds.
\* Of CalculateSpeeds only the guard duration > 0 and bs.LastUpdate = now
\* are kept in this part.
TickTaskRun ==
    /\ pc \notin {"start", "panic", "exit"}
    /\ client.monitor.tickTasks > 0
    /\ sinceCalc > 0
    /\ sinceCalc' = 0
    /\ UNCHANGED <<client, pc, probeIdx, sleepLeft, prevCall, lastCall,
                   callGap, sinceCall, sinceSent, failsSince, lastEvent>>
    /\ UNCHANGED <<serverVars, statsVars, linkVars, sideVars>>

\* The statistics goroutine of Start, case <-bm.stopChan: it returns.
TickTaskExit ==
    /\ pc \notin {"start", "panic", "exit"}
    /\ client.monitor.tickTasks > 0
    /\ client.monitor.stopChan = "closed"
    /\ client' = [client EXCEPT !.monitor.tickTasks = @ - 1]
    /\ UNCHANGED <<pc, probeIdx, sleepLeft, prevCall, lastCall, callGap,
                   sinceCall, sinceSent, failsSince, lastEvent, sinceCalc>>
    /\ UNCHANGED <<serverVars, statsVars, linkVars, sideVars>>

ClientNext ==
    \/ FirstConnect
    \/ DataTick
    \/ ReconnectTick
    \/ WarmupDone
    \/ Probe
    \/ GapDone
    \/ Quit
    \/ Advance
    \/ TickTaskRun
    \/ TickTaskExit

(***************************************************************************)
(* Part II: the collector (server/server/quic.go).                         *)
(*                                                                         *)
(* Time is counted in minutes.  ClientConnection.LastSeen and the now of a *)
(* sweep are represented by their ages (minutes since that instant); the   *)
(* difference now.Sub(LastSeen) is the difference of the two ages.         *)
(***************************************************************************)
\* checkClientsStatus: now.Sub(client.LastSeen) > 5*time.Minute
IdleTimeout == 5
\* number of connections the listener accepts in a run
MaxConns == 2
\* the longest one Range of the sweep takes, in minutes
MaxSweepMinutes == 0

\* instants of the collector's clock told apart when LastSeen is followed
\* write by write
MaxClock == 2

\* ages saturate where no comparison can tell them apart any more
MaxAge == IdleTimeout + 1 + MaxSweepMinutes

Conns == 1 .. MaxConns
ClientIDs == {"a", "b"}
\* BandwidthData.Alias: that of the first message of a connection is named
\* "x"; a later message carries the same alias or another one, "y".
Aliases == {"x", "y"}

\* What one stream carries: nothing, bytes that are no JSON, or a
\* BandwidthData whose Timestamp is or is not the zero time.
Payloads ==
    {[kind |-> "empty"], [kind |-> "malformed"]}
    \cup {[kind |-> "json", client_id |-> i, tsZero |-> z] :
             i \in ClientIDs, z \in BOOLEAN}

\* handleConnection before its first stream: var clientID, alias string.
\* regCalls and stores count the RegisterClient calls and the clients.Store
\* calls made for the connection (counted up to 2).
NewHandler(at) ==
    [pc |-> at, clientID |-> "", alias |-> "", regCalls |-> 0, stores |-> 0]

\* the handler has no time.Now() in hand
NoPending == [now |-> 0, owner |-> 0, tsZero |-> FALSE]

\* no handleStream ran in the last step
NoStream ==
    [conn |-> 0, kind |-> "none", tsZero |-> FALSE, msgId |-> "",
     regCalled |-> FALSE, regOk |-> FALSE, stored |-> FALSE,
     refreshed |-> FALSE, saveCalled |-> FALSE, saveId |-> "",
     saveOk |-> FALSE]

\* the Range callback of the sweep holds no entry
NoHeld == [id |-> "", conn |-> 0]

\* sync.Map primitives
MapStore(m, k, v) == [x \in DOMAIN m \cup {k} |-> IF x = k THEN v ELSE m[x]]
MapDelete(m, k) == [x \in DOMAIN m \ {k} |-> m[x]]

\* the eviction test with >= in place of >
IsIdle_AtThreshold(nowAge, seenAge) == seenAge - nowAge >= IdleTimeout

\* checkClientsStatus: the test that evicts a session,
\* now.Sub(client.LastSeen) > 5*time.Minute, on the ages of now and LastSeen
IsIdle(nowAge, seenAge) == seenAge - nowAge > IdleTimeout

ServerInit ==
    /\ clients = << >>
    /\ connState = [c \in Conns |-> "new"]
    /\ handler = [c \in Conns |-> NewHandler("none")]
    /\ sweep = [pc |-> "wait", nowAge |-> 0, todo |-> {}, visited |-> {},
                evicted |-> {}, held |-> NoHeld]
    /\ sweepDue = FALSE
    /\ registered = {}
    /\ saved = {}
    /\ lastStream = NoStream
    /\ ctx = "live"
    /\ acceptor = [pc |-> "loop", conn |-> 0]
    /\ stopper = [pc |-> "idle", todo |-> {}, visited |-> {}]
    /\ wg = 0
    /\ clock = 0
    /\ pending = [c \in Conns |-> NoPending]
    /\ lastSeenAt = [k \in ClientIDs |-> 0]

\* Start: listener.Accept returns a connection; its handler is spawned.
\* Connections are numbered in the order the listener hands them out.
Accept(c) ==
    /\ connState[c] = "new"
    /\ \A d \in Conns : d < c => connState[d] # "new"
    /\ connState' = [connState EXCEPT ![c] = "open"]
    /\ handler' = [handler EXCEPT ![c].pc = "accept"]
    /\ wg' = wg + 1
    /\ UNCHANGED <<clients, sweep, sweepDue, registered, saved>>
    /\ lastStream' = NoStream
    /\ UNCHANGED <<ctx, acceptor, stopper, refreshVars>>
    /\ UNCHANGED <<clientVars, statsVars, linkVars, sideVars>>

\* identification with every message overwriting clientID and alias
Identify_LastMessageWins(id0, alias0, p, a) ==
    [clientID |-> p.client_id, alias |-> a]

\* handleStream, if *clientID == "": the handler's clientID and alias after
\* a well-formed message p with alias a.
Identify(id0, alias0, p, a) ==
    IF id0 = ""
    THEN [clientID |-> p.client_id, alias |-> a]
    ELSE [clientID |-> id0, alias |-> alias0]

\* handleStream: if client, ok := s.clients.Load(*clientID); ok, then
\* LastSeen = time.Now()
Refresh(m, id) ==
    IF id \in DOMAIN m THEN [m EXCEPT ![id].seenAge = 0] ELSE m

\* the timestamp test left out
HasTimestamp_Unchecked(p) == TRUE

\* handleStream: bandwidthData.Timestamp.IsZero() rejects the message
HasTimestamp(p) == ~p.tsZero

\* handleStream removing the session when SaveBandwidthData fails
handleStream_DropsSessionOnSaveError(c, id0, alias0, m, p, a, regOk, saveOk) ==
    IF p.kind # "json"
    THEN [clientID |-> id0, alias |-> alias0, clients |-> m,
          regCalled |-> FALSE, registered |-> FALSE, stored |-> FALSE,
          refreshed |-> FALSE, saveCalled |-> FALSE, saved |-> FALSE]
    ELSE LET fresh == id0 = ""
             who == Identify(id0, alias0, p, a)
             id == who.clientID
         IN
         IF fresh /\ ~regOk
         THEN [clientID |-> id, alias |-> who.alias, clients |-> m,
               regCalled |-> TRUE, registered |-> FALSE, stored |-> FALSE,
               refreshed |-> FALSE, saveCalled |-> FALSE, saved |-> FALSE]
         ELSE LET m1 == IF fresh
                        THEN MapStore(m, id, [conn |-> c, seenAge |-> 0])
                        ELSE m
                  m2 == Refresh(m1, id)
              IN [clientID |-> id, alias |-> who.alias,
                  clients |-> IF HasTimestamp(p) /\ ~saveOk
                              THEN MapDelete(m2, id) ELSE m2,
                  regCalled |-> fresh, registered |-> fresh,
                  stored |-> fresh, refreshed |-> id \in DOMAIN m1,
                  saveCalled |-> HasTimestamp(p),
                  saved |-> HasTimestamp(p) /\ saveOk]

\* handleStream on payload p (with alias a) of a stream of connection c,
\* whose handler holds clientID id0 and alias alias0; regOk and saveOk are
\* the outcomes of database.RegisterClient and database.SaveBandwidthData.
\* The result: the handler's clientID and alias, the registry, which
\* database calls were made (regCalled, saveCalled) and made with success
\* (registered, saved), and whether clients.Store ran (stored) and LastSeen
\* was set through clients.Load (refreshed).
handleStream(c, id0, alias0, m, p, a, regOk, saveOk) ==
    IF p.kind # "json"
    THEN [clientID |-> id0, alias |-> alias0, clients |-> m,
          regCalled |-> FALSE, registered |-> FALSE, stored |-> FALSE,
          refreshed |-> FALSE, saveCalled |-> FALSE, saved |-> FALSE]
    ELSE LET fresh == id0 = ""
             who == Identify(id0, alias0, p, a)
             id == who.clientID
         IN
         IF fresh /\ ~regOk
         THEN [clientID |-> id, alias |-> who.alias, clients |-> m,
               regCalled |-> TRUE, registered |-> FALSE, stored |-> FALSE,
               refreshed |-> FALSE, saveCalled |-> FALSE, saved |-> FALSE]
         ELSE LET m1 == IF fresh
                        THEN MapStore(m, id, [conn |-> c, seenAge |-> 0])
                        ELSE m
                  m2 == Refresh(m1, id)
              IN [clientID |-> id, alias |-> who.alias, clients |-> m2,
                  regCalled |-> fresh, registered |-> fresh,
                  stored |-> fresh, refreshed |-> id \in DOMAIN m1,
                  saveCalled |-> HasTimestamp(p),
                  saved |-> HasTimestamp(p) /\ saveOk]

\* handleConnection: s.handleStream(stream, conn, &clientID, &alias) on
\* payload p with alias a; afterwards the handler is back at AcceptStream.
StreamEffect(c, p, a, regOk, saveOk) ==
    /\ LET h == handler[c]
           r == handleStream(c, h.clientID, h.alias, clients, p, a, regOk,
                             saveOk)
       IN
       /\ handler' = [handler EXCEPT ![c] =
              [h EXCEPT !.pc = "accept",
                        !.clientID = r.clientID,
                        !.alias = r.alias,
                        !.regCalls = Min(2, @ + IF r.regCalled THEN 1 ELSE 0),
                        !.stores = Min(2, @ + IF r.stored THEN 1 ELSE 0)]]
       /\ clients' = r.clients
       /\ registered' = IF r.registered THEN registered \cup {r.clientID}
                        ELSE registered
       /\ saved' = IF r.saved THEN saved \cup {r.clientID} ELSE saved
    /\ UNCHANGED <<connState, sweep, sweepDue>>
    /\ UNCHANGED <<clientVars, statsVars, sideVars>>

\* handleConnection: AcceptStream returns a stream carrying payload p with
\* alias a, and handleStream runs on it.
StreamStep(c, p, a, regOk, saveOk) ==
    /\ handler[c].pc = "accept"
    /\ connState[c] = "open"
    /\ ctx = "live"
    /\ pending[c] = NoPending
    /\ StreamEffect(c, p, a, regOk, saveOk)

\* The record of that handleStream execution, taken before it runs.
StreamRecord(c, p, a, regOk, saveOk) ==
    LET h == handler[c]
        r == handleStream(c, h.clientID, h.alias, clients, p, a, regOk,
                          saveOk)
    IN [conn |-> c, kind |-> p.kind,
        tsZero |-> p.kind = "json" /\ p.tsZero,
        msgId |-> IF p.kind = "json" THEN p.client_id ELSE "",
        regCalled |-> r.regCalled, regOk |-> r.registered,
        stored |-> r.stored, refreshed |-> r.refreshed,
        saveCalled |-> r.saveCalled,
        saveId |-> IF r.saveCalled THEN r.clientID ELSE "",
        saveOk |-> r.saved]

\* handleConnection: one iteration of the AcceptStream loop, over what the
\* stream may carry and what the database may answer.
HandleStream(c) ==
    \E p \in Payloads :
    \E a \in IF p.kind # "json" THEN {""}
              ELSE IF handler[c].clientID = "" THEN {"x"} ELSE Aliases :
    \E regOk \in IF p.kind = "json" /\ handler[c].clientID = ""
                 THEN BOOLEAN ELSE {TRUE} :
    \E saveOk \in IF p.kind = "json" /\ ~p.tsZero
                  THEN BOOLEAN ELSE {TRUE} :
       /\ StreamStep(c, p, a, regOk, saveOk)
       /\ lastStream' = NoStream
       /\ UNCHANGED <<stopVars, refreshVars, linkVars>>

\* The same iteration, with what handleStream did put on record.
ObservedStream(c) ==
    \E p \in Payloads :
    \E a \in IF p.kind # "json" THEN {""}
              ELSE IF handler[c].clientID = "" THEN {"x"} ELSE Aliases :
    \E regOk \in IF p.kind = "json" /\ handler[c].clientID = ""
                 THEN BOOLEAN ELSE {TRUE} :
    \E saveOk \in IF p.kind = "json" /\ ~p.tsZero
                  THEN BOOLEAN ELSE {TRUE} :
       /\ StreamStep(c, p, a, regOk, saveOk)
       /\ lastStream' = StreamRecord(c, p, a, regOk, saveOk)
       /\ UNCHANGED <<stopVars, refreshVars, linkVars>>

\* The peer closes the connection (or it times out).
PeerClose(c) ==
    /\ connState[c] = "open"
    /\ connState' = [connState EXCEPT ![c] = "closed"]
    /\ UNCHANGED <<clients, handler, sweep, sweepDue, registered, saved>>
    /\ lastStream' = NoStream
    /\ UNCHANGED <<stopVars, refreshVars>>
    /\ UNCHANGED <<clientVars, statsVars, linkVars, sideVars>>

\* handler that never looks at the context
HandlerMayExit_IgnoresContext(c) == connState[c] = "closed"

\* handleConnection leaves its loop: case <-s.ctx.Done(), or AcceptStream
\* fails because the connection is closed or the context is cancelled.
HandlerMayExit(c) == connState[c] = "closed" \/ ctx = "cancelled"

\* handleConnection returns: the deferred function deletes the entry of
\* clientID and closes the connection; the goroutine's deferred
\* s.connections.Done() follows.
HandlerExit(c) ==
    /\ handler[c].pc = "accept"
    /\ pending[c] = NoPending
    /\ HandlerMayExit(c)
    /\ handler' = [handler EXCEPT ![c] = NewHandler("done")]
    /\ clients' = IF handler[c].clientID # ""
                  THEN MapDelete(clients, handler[c].clientID)
                  ELSE clients
    /\ connState' = [connState EXCEPT ![c] = "closed"]
    /\ wg' = wg - 1
    /\ UNCHANGED <<sweep, sweepDue, registered, saved>>
    /\ lastStream' = NoStream
    /\ UNCHANGED <<ctx, acceptor, stopper, refreshVars>>
    /\ UNCHANGED <<clientVars, statsVars, linkVars, sideVars>>

\* A minute passes; the sweep's ticker fires (its channel holds one tick).
MinutePass ==
    /\ sweep.pc = "range" => sweep.nowAge < MaxSweepMinutes
    /\ clients' = [k \in DOMAIN clients |->
                     [clients[k] EXCEPT !.seenAge = Min(MaxAge, @ + 1)]]
    /\ sweep' = IF sweep.pc = "range"
                THEN [sweep EXCEPT !.nowAge = @ + 1]
                ELSE sweep
    /\ sweepDue' = TRUE
    /\ UNCHANGED <<connState, handler, registered, saved>>
    /\ lastStream' = NoStream
    /\ UNCHANGED <<stopVars, refreshVars>>
    /\ UNCHANGED <<clientVars, statsVars, linkVars, sideVars>>

\* checkClientsStatus, case <-ticker.C: now := time.Now(); Range begins.
SweepStart ==
    /\ sweep.pc = "wait"
    /\ sweepDue
    /\ sweepDue' = FALSE
    /\ sweep' = [pc |-> "range", nowAge |-> 0, todo |-> DOMAIN clients,
                 visited |-> {}, evicted |-> {}, held |-> NoHeld]
    /\ UNCHANGED <<clients, connState, handler, registered, saved>>
    /\ lastStream' = NoStream
    /\ UNCHANGED <<stopVars, refreshVars>>
    /\ UNCHANGED <<clientVars, statsVars, linkVars, sideVars>>

\* checkClientsStatus: the Range callback on one entry.  A key stored after
\* Range began may be visited too; no key is visited twice.
SweepVisit(k) ==
    /\ sweep.pc = "range"
    /\ k \in DOMAIN clients
    /\ k \notin sweep.visited
    /\ IF IsIdle(sweep.nowAge, clients[k].seenAge)
       THEN /\ connState' = [connState EXCEPT ![clients[k].conn] = "closed"]
            /\ clients' = MapDelete(clients, k)
            /\ sweep' = [sweep EXCEPT
                            !.visited = @ \cup {k},
                            !.evicted = @ \cup
                                {[id |-> k,
                                  idle |-> clients[k].seenAge - sweep.nowAge]}]
       ELSE /\ sweep' = [sweep EXCEPT !.visited = @ \cup {k}]
            /\ UNCHANGED <<connState, clients>>
    /\ UNCHANGED <<handler, sweepDue, registered, saved>>
    /\ lastStream' = NoStream
    /\ UNCHANGED <<stopVars, refreshVars>>
    /\ UNCHANGED <<clientVars, statsVars, linkVars, sideVars>>

\* checkClientsStatus: Range returns once every key that was there when it
\* began has been visited or is gone.
SweepEnd ==
    /\ sweep.pc = "range"
    /\ (sweep.todo \cap DOMAIN clients) \subseteq sweep.visited
    /\ sweep' = [pc |-> "wait", nowAge |-> 0, todo |-> {}, visited |-> {},
                 evicted |-> {}, held |-> NoHeld]
    /\ UNCHANGED <<clients, connState, handler, sweepDue, registered, saved>>
    /\ lastStream' = NoStream
    /\ UNCHANGED <<stopVars, refreshVars>>
    /\ UNCHANGED <<clientVars, statsVars, linkVars, sideVars>>

(***************************************************************************)
(* The Range callback of checkClientsStatus statement by statement: the    *)
(* test of client.LastSeen, then client.Conn.CloseWithError and            *)
(* s.clients.Delete(key), with the handlers running in between.  The       *)
(* callback is over before the next minute begins.                         *)
(***************************************************************************)
\* checkClientsStatus, the callback on one entry: client := value, and the
\* test now.Sub(client.LastSeen) > 5*time.Minute
SweepTest(k) ==
    /\ sweep.pc = "range"
    /\ k \in DOMAIN clients
    /\ k \notin sweep.visited
    /\ sweep' = IF IsIdle(sweep.nowAge, clients[k].seenAge)
                THEN [sweep EXCEPT !.pc = "close",
                                   !.visited = @ \cup {k},
                                   !.held = [id |-> k,
                                             conn |-> clients[k].conn]]
                ELSE [sweep EXCEPT !.visited = @ \cup {k}]
    /\ UNCHANGED <<clients, connState, handler, sweepDue, registered, saved>>
    /\ lastStream' = NoStream
    /\ UNCHANGED <<stopVars, refreshVars>>
    /\ UNCHANGED <<clientVars, statsVars, linkVars, sideVars>>

\* checkClientsStatus, the callback after the test has passed:
\* client.Conn.CloseWithError(0, "inactive timeout"); s.clients.Delete(key)
SweepClose ==
    /\ sweep.pc = "close"
    /\ connState' = [connState EXCEPT ![sweep.held.conn] = "closed"]
    /\ clients' = MapDelete(clients, sweep.held.id)
    /\ sweep' = [sweep EXCEPT !.pc = "range", !.held = NoHeld]
    /\ UNCHANGED <<handler, sweepDue, registered, saved>>
    /\ lastStream' = NoStream
    /\ UNCHANGED <<stopVars, refreshVars>>
    /\ UNCHANGED <<clientVars, statsVars, linkVars, sideVars>>

SweepRaceNext ==
    \/ \E c \in Conns : Accept(c)
    \/ \E c \in Conns : HandleStream(c)
    \/ \E c \in Conns : PeerClose(c)
    \/ \E c \in Conns : HandlerExit(c)
    \/ (sweep.pc # "close" /\ MinutePass)
    \/ SweepStart
    \/ \E k \in ClientIDs : SweepTest(k)
    \/ SweepClose
    \/ SweepEnd

ServerNext ==
    \/ \E c \in Conns : Accept(c)
    \/ \E c \in Conns : HandleStream(c)
    \/ \E c \in Conns : PeerClose(c)
    \/ \E c \in Conns : HandlerExit(c)
    \/ MinutePass
    \/ SweepStart
    \/ \E k \in ClientIDs : SweepVisit(k)
    \/ SweepEnd

(***************************************************************************)
(* Shutdown.  The accept loop, the handlers and Stop, step by step as the  *)
(* goroutines interleave; the shutdown is over before the sweep's next     *)
(* tick.                                                                   *)
(***************************************************************************)
\* Start: s.listener.Accept(s.ctx) returns connection c to the accept loop.
AcceptReturn(c) ==
    /\ acceptor.pc = "loop"
    /\ ctx = "live"
    /\ connState[c] = "new"
    /\ \A d \in Conns : d < c => connState[d] # "new"
    /\ connState' = [connState EXCEPT ![c] = "open"]
    /\ acceptor' = [pc |-> "spawn", conn |-> c]
    /\ UNCHANGED <<clients, handler, sweep, sweepDue, registered, saved>>
    /\ lastStream' = NoStream
    /\ UNCHANGED <<ctx, stopper, wg, refreshVars>>
    /\ UNCHANGED <<clientVars, statsVars, linkVars, sideVars>>

\* Start: s.connections.Add(1); go func() { ... s.handleConnection(conn) }()
Spawn ==
    /\ acceptor.pc = "spawn"
    /\ wg' = wg + 1
    /\ handler' = [handler EXCEPT ![acceptor.conn].pc = "accept"]
    /\ acceptor' = [pc |-> "loop", conn |-> 0]
    /\ UNCHANGED <<clients, connState, sweep, sweepDue, registered, saved>>
    /\ lastStream' = NoStream
    /\ UNCHANGED <<ctx, stopper, refreshVars>>
    /\ UNCHANGED <<clientVars, statsVars, linkVars, sideVars>>

\* Start: case <-s.ctx.Done(), or Accept fails and s.ctx.Err() != nil:
\* return nil.
AcceptorExit ==
    /\ acceptor.pc = "loop"
    /\ ctx = "cancelled"
    /\ acceptor' = [pc |-> "done", conn |-> 0]
    /\ UNCHANGED <<clients, connState, handler, sweep, sweepDue, registered,
                   saved>>
    /\ lastStream' = NoStream
    /\ UNCHANGED <<ctx, stopper, wg, refreshVars>>
    /\ UNCHANGED <<clientVars, statsVars, linkVars, sideVars>>

\* handleConnection: conn.AcceptStream(s.ctx) returns a stream.
StreamAccepted(c) ==
    /\ handler[c].pc = "accept"
    /\ connState[c] = "open"
    /\ ctx = "live"
    /\ handler' = [handler EXCEPT ![c].pc = "stream"]
    /\ UNCHANGED <<clients, connState, sweep, sweepDue, registered, saved>>
    /\ lastStream' = NoStream
    /\ UNCHANGED <<stopVars, refreshVars>>
    /\ UNCHANGED <<clientVars, statsVars, linkVars, sideVars>>

\* handleConnection: handleStream runs on the stream it accepted (a stream
\* it can no longer read counts as an empty payload).
StreamHandled(c) ==
    /\ handler[c].pc = "stream"
    /\ \E p \in Payloads :
       \E a \in IF p.kind # "json" THEN {""}
                 ELSE IF handler[c].clientID = "" THEN {"x"} ELSE Aliases :
       \E regOk \in IF p.kind = "json" /\ handler[c].clientID = ""
                    THEN BOOLEAN ELSE {TRUE} :
       \E saveOk \in IF p.kind = "json" /\ ~p.tsZero
                     THEN BOOLEAN ELSE {TRUE} :
          StreamEffect(c, p, a, regOk, saveOk)
    /\ lastStream' = NoStream
    /\ UNCHANGED <<stopVars, refreshVars, linkVars>>

\* Stop on a started server: s.cancel() and s.listener.Close(); from here
\* on Accept hands out no connection.  Range begins.
StopCancel ==
    /\ stopper.pc = "idle"
    /\ ctx' = "cancelled"
    /\ stopper' = [pc |-> "range", todo |-> DOMAIN clients, visited |-> {}]
    /\ UNCHANGED <<clients, connState, handler, sweep, sweepDue, registered,
                   saved>>
    /\ lastStream' = NoStream
    /\ UNCHANGED <<acceptor, wg, refreshVars>>
    /\ UNCHANGED <<clientVars, statsVars, linkVars, sideVars>>

\* Stop: the Range callback on entry k: client.Conn.CloseWithError.
StopVisit(k) ==
    /\ stopper.pc = "range"
    /\ k \in DOMAIN clients
    /\ k \notin stopper.visited
    /\ connState' = [connState EXCEPT ![clients[k].conn] = "closed"]
    /\ stopper' = [stopper EXCEPT !.visited = @ \cup {k}]
    /\ UNCHANGED <<clients, handler, sweep, sweepDue, registered, saved>>
    /\ lastStream' = NoStream
    /\ UNCHANGED <<ctx, acceptor, wg, refreshVars>>
    /\ UNCHANGED <<clientVars, statsVars, linkVars, sideVars>>

\* Stop: Range returns once every key that was there when it began has
\* been visited or is gone; s.connections.Wait() is next.
StopRangeEnd ==
    /\ stopper.pc = "range"
    /\ (stopper.todo \cap DOMAIN clients) \subseteq stopper.visited
    /\ stopper' = [stopper EXCEPT !.pc = "wait"]
    /\ UNCHANGED <<clients, connState, handler, sweep, sweepDue, registered,
                   saved>>
    /\ lastStream' = NoStream
    /\ UNCHANGED <<ctx, acceptor, wg, refreshVars>>
    /\ UNCHANGED <<clientVars, statsVars, linkVars, sideVars>>

\* Stop: s.connections.Wait() returns; s.started = false; return nil.
StopWait ==
    /\ stopper.pc = "wait"
    /\ wg = 0
    /\ stopper' = [stopper EXCEPT !.pc = "returned"]
    /\ UNCHANGED <<clients, connState, handler, sweep, sweepDue, registered,
                   saved>>
    /\ lastStream' = NoStream
    /\ UNCHANGED <<ctx, acceptor, wg, refreshVars>>
    /\ UNCHANGED <<clientVars, statsVars, linkVars, sideVars>>

\* checkClientsStatus: case <-s.ctx.Done(): return
SweepExit ==
    /\ sweep.pc = "wait"
    /\ ctx = "cancelled"
    /\ sweep' = [sweep EXCEPT !.pc = "exit"]
    /\ UNCHANGED <<clients, connState, handler, sweepDue, registered, saved>>
    /\ lastStream' = NoStream
    /\ UNCHANGED <<stopVars, refreshVars>>
    /\ UNCHANGED <<clientVars, statsVars, linkVars, sideVars>>

ShutdownNext ==
    \/ \E c \in Conns : AcceptReturn(c)
    \/ Spawn
    \/ AcceptorExit
    \/ \E c \in Conns : StreamAccepted(c)
    \/ \E c \in Conns : StreamHandled(c)
    \/ \E c \in Conns : PeerClose(c)
    \/ \E c \in Conns : HandlerExit(c)
    \/ StopCancel
    \/ \E k \in ClientIDs : StopVisit(k)
    \/ StopRangeEnd
    \/ StopWait
    \/ SweepExit

\* What the Go scheduler and the library guarantee: a goroutine that can
\* take its next step takes it.  No fairness for what the peers and the
\* caller of Stop do.
ShutdownFairness ==
    /\ WF_vars(Spawn)
    /\ WF_vars(AcceptorExit)
    /\ \A c \in Conns : WF_vars(StreamHandled(c))
    /\ \A c \in Conns : WF_vars(HandlerExit(c))
    /\ \A k \in ClientIDs : WF_vars(StopVisit(k))
    /\ WF_vars(StopRangeEnd)
    /\ WF_vars(StopWait)
    /\ WF_vars(SweepExit)

(***************************************************************************)
(* LastSeen write by write.  A handler that finds its clientID in the      *)
(* registry evaluates time.Now() and then assigns it to the LastSeen of    *)
(* the entry it loaded, without any lock; other handlers run in between.   *)
(***************************************************************************)
\* the collector's clock moves on by one instant
ClockTick ==
    /\ clock < MaxClock
    /\ clock' = clock + 1
    /\ UNCHANGED <<clients, connState, handler, sweep, sweepDue, registered,
                   saved>>
    /\ lastStream' = NoStream
    /\ UNCHANGED <<stopVars, pending, lastSeenAt>>
    /\ UNCHANGED <<clientVars, statsVars, linkVars, sideVars>>

\* handleConnection: one iteration of the AcceptStream loop, handleStream
\* running without interruption at instant clock: a Store and a refresh
\* both write LastSeen = clock.
TimedStream(c) ==
    \E p \in Payloads :
    \E a \in IF p.kind # "json" THEN {""}
              ELSE IF handler[c].clientID = "" THEN {"x"} ELSE Aliases :
    \E regOk \in IF p.kind = "json" /\ handler[c].clientID = ""
                 THEN BOOLEAN ELSE {TRUE} :
    \E saveOk \in IF p.kind = "json" /\ ~p.tsZero
                  THEN BOOLEAN ELSE {TRUE} :
       LET r == StreamRecord(c, p, a, regOk, saveOk)
           id == Identify(handler[c].clientID, handler[c].alias, p, a).clientID
       IN
       /\ StreamStep(c, p, a, regOk, saveOk)
       /\ lastSeenAt' = IF r.stored \/ r.refreshed
                        THEN [lastSeenAt EXCEPT ![id] = clock]
                        ELSE lastSeenAt
       /\ lastStream' = NoStream
       /\ UNCHANGED <<stopVars, clock, pending, linkVars>>

\* handleStream of an identified handler on a well-formed message, up to
\* the evaluation of time.Now() in LastSeen = time.Now(): clients.Load has
\* returned the entry (the one connection `owner` stored).
LoadAndNow(c) ==
    /\ handler[c].pc = "accept"
    /\ connState[c] = "open"
    /\ ctx = "live"
    /\ pending[c] = NoPending
    /\ handler[c].clientID \in DOMAIN clients
    /\ \E z \in BOOLEAN :
          pending' = [pending EXCEPT ![c] =
                         [now |-> clock,
                          owner |-> clients[handler[c].clientID].conn,
                          tsZero |-> z]]
    /\ UNCHANGED <<clients, connState, handler, sweep, sweepDue, registered,
                   saved>>
    /\ lastStream' = NoStream
    /\ UNCHANGED <<stopVars, clock, lastSeenAt>>
    /\ UNCHANGED <<clientVars, statsVars, linkVars, sideVars>>

\* The rest of that handleStream: the assignment to LastSeen of the entry
\* it loaded (seen in the registry if that entry is still the one stored
\* there), the timestamp test and SaveBandwidthData.
WriteLastSeen(c) ==
    /\ pending[c] # NoPending
    /\ LET id == handler[c].clientID IN
       /\ lastSeenAt' =
             IF id \in DOMAIN clients /\ clients[id].conn = pending[c].owner
             THEN [lastSeenAt EXCEPT ![id] = pending[c].now]
             ELSE lastSeenAt
       /\ clients' = IF id \in DOMAIN clients
                        /\ clients[id].conn = pending[c].owner
                     THEN Refresh(clients, id)
                     ELSE clients
       /\ \E saveOk \in BOOLEAN :
             saved' = IF HasTimestamp(pending[c]) /\ saveOk
                      THEN saved \cup {id} ELSE saved
    /\ pending' = [pending EXCEPT ![c] = NoPending]
    /\ UNCHANGED <<connState, handler, sweep, sweepDue, registered>>
    /\ lastStream' = NoStream
    /\ UNCHANGED <<stopVars, clock>>
    /\ UNCHANGED <<clientVars, statsVars, linkVars, sideVars>>

LastSeenNext ==
    \/ \E c \in Conns : Accept(c)
    \/ \E c \in Conns : TimedStream(c)
    \/ \E c \in Conns : LoadAndNow(c)
    \/ \E c \in Conns : WriteLastSeen(c)
    \/ \E c \in Conns : PeerClose(c)
    \/ \E c \in Conns : HandlerExit(c)
    \/ ClockTick

\* The connection handlers alone: no minute passes, the sweep never runs.
SessionNext ==
    \/ \E c \in Conns : Accept(c)
    \/ \E c \in Conns : ObservedStream(c)
    \/ \E c \in Conns : PeerClose(c)
    \/ \E c \in Conns : HandlerExit(c)

(***************************************************************************)
(* Part III: the measurement engine (bandwidthmonitor: BandwidthStats).    *)
(*                                                                         *)
(* The packet goroutine and the statistics goroutine of Start, statement   *)
(* by statement where they touch the BandwidthStats object.  Time is       *)
(* counted in readings of the clock; LastUpdate is represented by its age. *)
(* A rate bytes / duration is kept as the integer bytes * RateScale /      *)
(* duration, exact because every duration divides RateScale; a mean is     *)
(* kept as the pair of its sum and its count.                              *)
(***************************************************************************)
\* frames taken from the packet source in a run
MaxFrames == 3
\* CalculateSpeeds invocations in a run
MaxTicks == 2
\* the longest duration between two clock readings that is told apart
MaxElapsed == 1
\* metadata.CaptureInfo.Length of a frame
FrameLengths == {1, 2}
\* flow IDs of generateFlowID
Flows == {0}
Dirs == {"up", "down"}

\* NewBandwidthMonitor: int(time.Second/interval) * 2, interval being
\* Config.Monitor.SampleInterval
HistorySize == (10 \div SampleInterval) * 2
\* CalculateSpeeds: len(bs.flowTracker) > 10000
FlowCap == 10000

RECURSIVE Factorial(_)
Factorial(n) == IF n <= 1 THEN 1 ELSE n * Factorial(n - 1)
\* the unit of a rate: 1 / RateScale bytes per clock reading
RateScale == Factorial(MaxElapsed)

Zero == [up |-> 0, down |-> 0]

\* sort.Float64s on a copy of the values
RECURSIVE Insert(_, _)
Insert(x, sorted) ==
    IF sorted = << >> THEN <<x>>
    ELSE IF x <= Head(sorted) THEN <<x>> \o sorted
    ELSE <<Head(sorted)>> \o Insert(x, Tail(sorted))

RECURSIVE SortAsc(_)
SortAsc(values) ==
    IF values = << >> THEN << >>
    ELSE Insert(Head(values), SortAsc(Tail(values)))

RECURSIVE Sum(_)
Sum(values) == IF values = << >> THEN 0 ELSE Head(values) + Sum(Tail(values))

\* the plain mean of all values
calculateMovingAverage_Untrimmed(values) ==
    IF Len(values) = 0 THEN [sum |-> 0, n |-> 1]
    ELSE [sum |-> Sum(values), n |-> Len(values)]

\* calculateMovingAverage: the mean, as its sum and its count
calculateMovingAverage(values) ==
    IF Len(values) = 0 THEN [sum |-> 0, n |-> 1]
    ELSE LET sorted == SortAsc(values)
             n == Len(sorted)
             removeCount == n \div 10
             valid == IF n >= 10
                      THEN SubSeq(sorted, removeCount + 1, n - removeCount)
                      ELSE sorted
         IN [sum |-> Sum(valid), n |-> Len(valid)]

\* NewBandwidthStats
NewBandwidthStats ==
    [bytes |-> Zero, packets |-> Zero,
     speed |-> [up |-> [sum |-> 0, n |-> 1], down |-> [sum |-> 0, n |-> 1]],
     avgSize |-> [up |-> [bytes |-> 0, packets |-> 1],
                  down |-> [bytes |-> 0, packets |-> 1]],
     history |-> [up |-> << >>, down |-> << >>],
     sinceUpdate |-> 0,
     flows |-> {}, cacheOld |-> FALSE]

IdleTick == [pc |-> "wait", duration |-> 0, nowAge |-> 0,
             before |-> NewBandwidthStats]
IdlePacket == [pc |-> "recv", dir |-> "up", len |-> 0]
NoCalc == [ran |-> FALSE, duration |-> 0, before |-> NewBandwidthStats]

StatsInit ==
    /\ bs = NewBandwidthStats
    /\ mutex = "free"
    /\ packetTask = IdlePacket
    /\ tickTask = IdleTick
    /\ fed = [bytes |-> Zero, packets |-> Zero]
    /\ pub = [bytes |-> Zero, packets |-> Zero]
    /\ frameCount = 0
    /\ tickCount = 0
    /\ lastCalc = NoCalc

\* an Update that counts the packet in both directions
Update_CountsBothDirections(b, dir, len) ==
    [b EXCEPT !.bytes[dir] = @ + len,
              !.packets = [d \in Dirs |-> @[d] + 1]]

\* Update between Lock and Unlock: packetSize is
\* metadata.CaptureInfo.Length; bs.UploadBytes += packetSize and
\* bs.UploadPackets++ if isUpload, else the download pair
Update(b, dir, len) ==
    [b EXCEPT !.bytes[dir] = @ + len, !.packets[dir] = @ + 1]

\* a lock that excludes nobody
MutexFree_NoExclusion(m) == TRUE

\* bs.mutex.Lock() returns when nobody holds the mutex
MutexFree(m) == m = "free"

\* the reset leaving the packet counters as they are
ResetCounters_KeepsPackets(b) == [b EXCEPT !.bytes = Zero]

\* CalculateSpeeds: the four counters set to 0
ResetCounters(b) == [b EXCEPT !.bytes = Zero, !.packets = Zero]

\* a history that drops the sample just appended when it is full
Appended_DropsNewest(history, rate) ==
    LET h == Append(history, rate) IN
    IF Len(h) > HistorySize THEN SubSeq(h, 1, HistorySize) ELSE h

\* CalculateSpeeds: append to a history, keep at most HistorySize values
Appended(history, rate) ==
    LET h == Append(history, rate) IN
    IF Len(h) > HistorySize THEN Tail(h) ELSE h

\* an average packet size that falls to 0 in a window without packets
AvgPacketSize_ZeroWhenIdle(b, d) ==
    IF b.packets[d] > 0
    THEN [bytes |-> b.bytes[d], packets |-> b.packets[d]]
    ELSE [bytes |-> 0, packets |-> 1]

\* CalculateSpeeds: if bs.UploadPackets > 0 { bs.AvgUploadPacketSize =
\* float64(bs.UploadBytes) / float64(bs.UploadPackets) }, and the same for
\* download; the quotient is kept as its numerator and denominator
AvgPacketSize(b, d) ==
    IF b.packets[d] > 0
    THEN [bytes |-> b.bytes[d], packets |-> b.packets[d]]
    ELSE b.avgSize[d]

\* CalculateSpeeds, inside if duration > 0, up to the average packet sizes
Published(b, duration) ==
    LET up == Appended(b.history.up, (b.bytes.up * RateScale) \div duration)
        down == Appended(b.history.down,
                         (b.bytes.down * RateScale) \div duration)
    IN [b EXCEPT
          !.history = [up |-> up, down |-> down],
          !.speed = [up |-> calculateMovingAverage(up),
                     down |-> calculateMovingAverage(down)],
          !.avgSize = [up |-> AvgPacketSize(b, "up"),
                       down |-> AvgPacketSize(b, "down")]]

\* CalculateSpeeds: the flow tracker is replaced by an empty one, and
\* StartTime set to now, when it holds more than 10000 flows or StartTime
\* is more than 5 minutes back
CacheHygiene(b) ==
    IF Cardinality(b.flows) > FlowCap \/ b.cacheOld
    THEN [b EXCEPT !.flows = {}, !.cacheOld = FALSE]
    ELSE b

\* an invocation with duration <= 0 that still resets the counters
Skipped_ResetsCounters(b) == ResetCounters(b)

\* CalculateSpeeds when duration > 0 is false: nothing is assigned
Skipped(b) == b

\* CalculateSpeeds as a whole, on the object b, with duration the time from
\* b.LastUpdate to now and nowAge the time from now to the return
CalculateSpeeds(b, duration, nowAge) ==
    IF duration > 0
    THEN CacheHygiene([ResetCounters(Published(b, duration)) EXCEPT
                          !.sinceUpdate = nowAge])
    ELSE Skipped(b)

\* The packet goroutine: a frame comes out of packetSource.Packets();
\* isUploadPacket classifies it and notes its flow ID (outside the mutex).
FrameArrives ==
    /\ packetTask.pc = "recv"
    /\ frameCount < MaxFrames
    /\ frameCount' = frameCount + 1
    /\ \E d \in Dirs, n \in FrameLengths, f \in Flows :
          /\ packetTask' = [pc |-> "lock", dir |-> d, len |-> n]
          /\ bs' = [bs EXCEPT !.flows = @ \cup {f}]
    /\ lastCalc' = NoCalc
    /\ UNCHANGED <<mutex, tickTask, fed, pub, tickCount>>
    /\ UNCHANGED <<clientVars, serverVars, linkVars, sideVars>>

\* Update: bs.mutex.Lock()
UpdateLock ==
    /\ packetTask.pc = "lock"
    /\ MutexFree(mutex)
    /\ mutex' = "packet"
    /\ packetTask' = [packetTask EXCEPT !.pc = "count"]
    /\ lastCalc' = NoCalc
    /\ UNCHANGED <<bs, tickTask, fed, pub, frameCount, tickCount>>
    /\ UNCHANGED <<clientVars, serverVars, linkVars, sideVars>>

\* Update: bs.UploadBytes += packetSize; bs.UploadPackets++ (or the
\* download pair); the deferred Unlock
UpdateCounters ==
    /\ packetTask.pc = "count"
    /\ bs' = Update(bs, packetTask.dir, packetTask.len)
    /\ fed' = [fed EXCEPT !.bytes[packetTask.dir] = @ + packetTask.len,
                          !.packets[packetTask.dir] = @ + 1]
    /\ mutex' = IF mutex = "packet" THEN "free" ELSE mutex
    /\ packetTask' = IdlePacket
    /\ lastCalc' = NoCalc
    /\ UNCHANGED <<tickTask, pub, frameCount, tickCount>>
    /\ UNCHANGED <<clientVars, serverVars, linkVars, sideVars>>

\* The statistics goroutine, case <-ticker.C: CalculateSpeeds begins:
\* bs.mutex.Lock(); now := time.Now(); duration := now.Sub(bs.LastUpdate)
CalcLock ==
    /\ tickTask.pc = "wait"
    /\ tickCount < MaxTicks
    /\ MutexFree(mutex)
    /\ mutex' = "tick"
    /\ tickCount' = tickCount + 1
    /\ tickTask' = [pc |-> "read", duration |-> bs.sinceUpdate, nowAge |-> 0,
                    before |-> bs]
    /\ lastCalc' = NoCalc
    /\ UNCHANGED <<bs, packetTask, fed, pub, frameCount>>
    /\ UNCHANGED <<clientVars, serverVars, linkVars, sideVars>>

\* CalculateSpeeds: if duration > 0, the rates, the histories, the smoothed
\* speeds and the average packet sizes are computed from the counters.
CalcPublish ==
    /\ tickTask.pc = "read"
    /\ IF tickTask.duration > 0
       THEN /\ bs' = Published(bs, tickTask.duration)
            /\ pub' = [bytes |-> [d \in Dirs |-> pub.bytes[d] + bs.bytes[d]],
                       packets |-> [d \in Dirs |->
                                       pub.packets[d] + bs.packets[d]]]
            /\ tickTask' = [tickTask EXCEPT !.pc = "reset"]
       ELSE /\ bs' = Skipped(bs)
            /\ tickTask' = [tickTask EXCEPT !.pc = "unlock"]
            /\ UNCHANGED pub
    /\ pubCount' = IF tickTask.duration > 0 THEN pubCount + 1 ELSE pubCount
    /\ lastCalc' = NoCalc
    /\ UNCHANGED <<mutex, packetTask, fed, frameCount, tickCount>>
    /\ UNCHANGED <<clientVars, serverVars, linkVars, reporter, probe>>

\* CalculateSpeeds: the counters are reset, bs.LastUpdate = now, and the
\* flow tracker is replaced when it is too large or too old.
CalcReset ==
    /\ tickTask.pc = "reset"
    /\ bs' = CacheHygiene([ResetCounters(bs) EXCEPT
                               !.sinceUpdate = tickTask.nowAge])
    /\ tickTask' = [tickTask EXCEPT !.pc = "unlock"]
    /\ lastCalc' = NoCalc
    /\ UNCHANGED <<mutex, packetTask, fed, pub, frameCount, tickCount>>
    /\ UNCHANGED <<clientVars, serverVars, linkVars, sideVars>>

\* CalculateSpeeds returns: the deferred bs.mutex.Unlock()
CalcUnlock ==
    /\ tickTask.pc = "unlock"
    /\ mutex' = IF mutex = "tick" THEN "free" ELSE mutex
    /\ tickTask' = IdleTick
    /\ lastCalc' = [ran |-> TRUE, duration |-> tickTask.duration,
                    before |-> tickTask.before]
    /\ UNCHANGED <<bs, packetTask, fed, pub, frameCount, tickCount>>
    /\ UNCHANGED <<clientVars, serverVars, linkVars, sideVars>>

\* The clock moves on by one reading.
ClockAdvances ==
    /\ bs.sinceUpdate < MaxElapsed \/ (tickTask.pc # "wait"
                                       /\ tickTask.nowAge < MaxElapsed)
    /\ bs' = [bs EXCEPT !.sinceUpdate = Min(MaxElapsed, @ + 1)]
    /\ tickTask' = IF tickTask.pc = "wait" THEN tickTask
                   ELSE [tickTask EXCEPT !.nowAge = Min(MaxElapsed, @ + 1)]
    /\ lastCalc' = NoCalc
    /\ UNCHANGED <<mutex, packetTask, fed, pub, frameCount, tickCount>>
    /\ UNCHANGED <<clientVars, serverVars, linkVars, sideVars>>

\* now.Sub(bs.StartTime).Minutes() > 5 becomes true
CacheGrowsOld ==
    /\ ~bs.cacheOld
    /\ bs' = [bs EXCEPT !.cacheOld = TRUE]
    /\ lastCalc' = NoCalc
    /\ UNCHANGED <<mutex, packetTask, tickTask, fed, pub, frameCount,
                   tickCount>>
    /\ UNCHANGED <<clientVars, serverVars, linkVars, sideVars>>

(***************************************************************************)
(* The same two goroutines call by call: one action is one iteration of    *)
(* the packet loop, or one CalculateSpeeds from Lock to Unlock.            *)
(***************************************************************************)
\* CalculateSpeeds invocations in a run followed call by call
MaxEngineTicks == 5
\* frames in such a run
MaxEngineFrames == 2
\* the flows of a burst of frames that all belong to new flows
BurstFlows == 1 .. (FlowCap + 1)

TasksIdle ==
    /\ mutex = "free"
    /\ packetTask = IdlePacket
    /\ tickTask = IdleTick

\* The packet goroutine handles one frame: isUploadPacket, then Update.
EngineFrame ==
    /\ TasksIdle
    /\ frameCount < MaxEngineFrames
    /\ frameCount' = frameCount + 1
    /\ \E d \in Dirs, n \in FrameLengths, f \in Flows :
          /\ bs' = Update([bs EXCEPT !.flows = @ \cup {f}], d, n)
          /\ fed' = [fed EXCEPT !.bytes[d] = @ + n, !.packets[d] = @ + 1]
    /\ lastCalc' = NoCalc
    /\ UNCHANGED <<mutex, packetTask, tickTask, pub, tickCount>>
    /\ UNCHANGED <<clientVars, serverVars, linkVars, sideVars>>

\* The first frames of the packet source are FlowCap + 1 upload frames of
\* length 1, each the first frame of its flow, and the packet goroutine
\* handles them in a row, before the next tick.
EngineBurst ==
    /\ TasksIdle
    /\ fed.packets = Zero
    /\ LET n == Cardinality(BurstFlows) IN
       /\ bs' = [bs EXCEPT !.flows = @ \cup BurstFlows,
                           !.bytes.up = @ + n,
                           !.packets.up = @ + n]
       /\ fed' = [fed EXCEPT !.bytes.up = @ + n, !.packets.up = @ + n]
    /\ lastCalc' = NoCalc
    /\ UNCHANGED <<mutex, packetTask, tickTask, pub, frameCount, tickCount>>
    /\ UNCHANGED <<clientVars, serverVars, linkVars, sideVars>>

\* The statistics goroutine, case <-ticker.C: CalculateSpeeds from Lock to
\* Unlock.
EngineTick ==
    /\ TasksIdle
    /\ tickCount < MaxEngineTicks
    /\ tickCount' = tickCount + 1
    /\ bs' = CalculateSpeeds(bs, bs.sinceUpdate, 0)
    /\ pub' = IF bs.sinceUpdate > 0
              THEN [bytes |-> [d \in Dirs |-> pub.bytes[d] + bs.bytes[d]],
                    packets |-> [d \in Dirs |->
                                    pub.packets[d] + bs.packets[d]]]
              ELSE pub
    /\ pubCount' = IF bs.sinceUpdate > 0 THEN pubCount + 1 ELSE pubCount
    /\ lastCalc' = [ran |-> TRUE, duration |-> bs.sinceUpdate, before |-> bs]
    /\ UNCHANGED <<mutex, packetTask, tickTask, fed, frameCount>>
    /\ UNCHANGED <<clientVars, serverVars, linkVars, reporter, probe>>

EngineNext ==
    \/ EngineFrame
    \/ EngineTick
    \/ ClockAdvances
    \/ CacheGrowsOld

\* the flow tracker under a burst of new flows
CacheNext ==
    \/ EngineBurst
    \/ EngineTick
    \/ ClockAdvances
    \/ CacheGrowsOld

(***************************************************************************)
(* main, case <-dataTicker.C: stats := m.GetStats() returns the pointer    *)
(* bm.stats, and the BandwidthData literal reads four of its fields, one   *)
(* after the other, without bs.mutex.  Each value is kept together with    *)
(* the number of the publishing CalculateSpeeds invocation it comes from.  *)
(***************************************************************************)
\* the fields of BandwidthData read from stats, in the order of the literal
SampleFields == <<"UploadSpeed", "DownloadSpeed", "AvgUploadPacketSize",
                  "AvgDownloadPacketSize">>

\* stats.<field>
FieldOf(b, field) ==
    CASE field = "UploadSpeed" -> b.speed.up
      [] field = "DownloadSpeed" -> b.speed.down
      [] field = "AvgUploadPacketSize" -> b.avgSize.up
      [] field = "AvgDownloadPacketSize" -> b.avgSize.down

\* the reporter evaluates the next field of the literal
ReportRead ==
    /\ reporter.pc \in {"idle", "reading"}
    /\ Len(reporter.data) < Len(SampleFields)
    /\ LET field == SampleFields[Len(reporter.data) + 1] IN
       reporter' = [pc |-> "reading",
                    data |-> Append(reporter.data, FieldOf(bs, field)),
                    from |-> Append(reporter.from, pubCount)]
    /\ lastCalc' = NoCalc
    /\ UNCHANGED <<bs, mutex, packetTask, tickTask, fed, pub, frameCount,
                   tickCount>>
    /\ UNCHANGED <<clientVars, serverVars, linkVars, pubCount, probe>>

\* the literal is complete: client.sendData(data) is called
ReportSend ==
    /\ reporter.pc = "reading"
    /\ Len(reporter.data) = Len(SampleFields)
    /\ reporter' = [reporter EXCEPT !.pc = "send"]
    /\ lastCalc' = NoCalc
    /\ UNCHANGED <<bs, mutex, packetTask, tickTask, fed, pub, frameCount,
                   tickCount>>
    /\ UNCHANGED <<clientVars, serverVars, linkVars, pubCount, probe>>

\* sendData has returned; main is back at its select
ReportDone ==
    /\ reporter.pc = "send"
    /\ reporter' = IdleReporter
    /\ lastCalc' = NoCalc
    /\ UNCHANGED <<bs, mutex, packetTask, tickTask, fed, pub, frameCount,
                   tickCount>>
    /\ UNCHANGED <<clientVars, serverVars, linkVars, pubCount, probe>>

ReportNext ==
    \/ EngineFrame
    \/ EngineTick
    \/ ClockAdvances
    \/ ReportRead
    \/ ReportSend
    \/ ReportDone

\* The two goroutines statement by statement.  The flow tracker does not
\* reach the age of 5 minutes here; its ageing is followed call by call
\* (EngineNext, CacheNext).
StatsNext ==
    \/ FrameArrives
    \/ UpdateLock
    \/ UpdateCounters
    \/ CalcLock
    \/ CalcPublish
    \/ CalcReset
    \/ CalcUnlock
    \/ ClockAdvances

(***************************************************************************)
(* Direction classification (BandwidthMonitor.isUploadPacket).             *)
(*                                                                         *)
(* An address is the pair of its network and its host part; a subnet is    *)
(* named by the network part, so network.Contains(ip) is ip[1] = network.  *)
(***************************************************************************)
\* frames classified in a run that carry an IP layer
MaxClassified == 1
\* the addresses told apart: the interface's own, a neighbour in its subnet,
\* and two hosts elsewhere
Addrs == {<<1, 1>>, <<1, 2>>, <<2, 1>>, <<2, 2>>}
\* getLocalNetworks: the address of every interface that is up, and its subnet
LocalIPs == {<<1, 1>>}
LocalNetworks == {1}
\* isUploadPacket: dstPort < 1024 && srcPort >= 1024
WellKnownPorts == 1024
\* uint16 ports told apart
Ports == {0, 80, WellKnownPorts - 1, WellKnownPorts, 40000}
Transports == {"tcp", "udp", "none"}

\* the frames of the packet source: without an IP layer; with an IP layer
\* and no TCP or UDP layer; with an IP layer and ports
Frames ==
    {[ip |-> FALSE]}
    \cup {[ip |-> TRUE, src |-> a, dst |-> b, transport |-> "none"] :
             a \in Addrs, b \in Addrs}
    \cup {[ip |-> TRUE, src |-> a, dst |-> b, transport |-> t,
           srcPort |-> p, dstPort |-> q] :
             a \in Addrs, b \in Addrs, t \in Transports \ {"none"},
             p \in Ports, q \in Ports}

\* isUploadPacket: var srcPort, dstPort uint16, set from the TCP or UDP layer
SrcPort(fr) == IF fr.transport = "none" THEN 0 ELSE fr.srcPort
DstPort(fr) == IF fr.transport = "none" THEN 0 ELSE fr.dstPort

\* generateFlowID: the five fields printed into one string
generateFlowID(fr) ==
    <<fr.src, fr.dst, SrcPort(fr), DstPort(fr), fr.transport>>

\* a membership test that knows the interface addresses only
isLocalIP_ExactOnly(ip) == ip \in LocalIPs

\* isLocalIP: one of LocalIPs, or inside one of LocalNetworks
isLocalIP(ip) == ip \in LocalIPs \/ ip[1] \in LocalNetworks

\* a port rule that counts 1024 among the server ports
PortRule_Inclusive(srcPort, dstPort) ==
    dstPort <= WellKnownPorts /\ srcPort >= WellKnownPorts

\* isUploadPacket: return dstPort < 1024 && srcPort >= 1024
PortRule(srcPort, dstPort) ==
    dstPort < WellKnownPorts /\ srcPort >= WellKnownPorts

\* a classifier whose last return is download
isUploadPacket_DefaultDownload(fr) ==
    IF ~fr.ip THEN FALSE
    ELSE LET srcIsLocal == isLocalIP(fr.src)
             dstIsLocal == isLocalIP(fr.dst)
         IN IF srcIsLocal /\ ~dstIsLocal THEN TRUE
            ELSE IF ~srcIsLocal /\ dstIsLocal THEN FALSE
            ELSE IF srcIsLocal /\ dstIsLocal
                 THEN PortRule(SrcPort(fr), DstPort(fr))
            ELSE FALSE

\* isUploadPacket: TRUE for upload, FALSE for download
isUploadPacket(fr) ==
    IF ~fr.ip THEN TRUE
    ELSE LET srcIsLocal == isLocalIP(fr.src)
             dstIsLocal == isLocalIP(fr.dst)
         IN IF srcIsLocal /\ ~dstIsLocal THEN TRUE
            ELSE IF ~srcIsLocal /\ dstIsLocal THEN FALSE
            ELSE IF srcIsLocal /\ dstIsLocal
                 THEN PortRule(SrcPort(fr), DstPort(fr))
            ELSE TRUE

\* The packet goroutine calls isUploadPacket on a frame: the flow ID of a
\* frame with an IP layer goes into the flow tracker, and the direction is
\* returned.
ClassifyFrame ==
    /\ Cardinality(bs.flows) < MaxClassified
    /\ \E fr \in Frames :
          /\ probe' = [fn |-> "isUploadPacket", frame |-> fr,
                       upload |-> isUploadPacket(fr)]
          /\ bs' = IF fr.ip
                   THEN [bs EXCEPT !.flows = @ \cup {generateFlowID(fr)}]
                   ELSE bs
    /\ lastCalc' = NoCalc
    /\ UNCHANGED <<mutex, packetTask, tickTask, fed, pub, frameCount,
                   tickCount>>
    /\ UNCHANGED <<clientVars, serverVars, linkVars, reporter, pubCount>>

ClassifyNext == ClassifyFrame

(***************************************************************************)
(* The smoothing function (calculateMovingAverage) on windows of its own.  *)
(***************************************************************************)
\* the longest window built value by value
MaxWindow == 10
\* the rates such a window is built from
WindowRates == {1, 2, 10}
\* the lengths of the ascending windows 1, 2, .., n
AscendingLengths == {10, 20}

\* the caller's slice after a sort done in place
WindowAfter_SortedInPlace(values) == SortAsc(values)

\* calculateMovingAverage: sortedValues is a copy, the caller's slice is
\* what it was
WindowAfter(values) == values

Averaged(values) ==
    [fn |-> "calculateMovingAverage", values |-> values,
     mean |-> calculateMovingAverage(values), after |-> WindowAfter(values)]

\* calculateMovingAverage on the window grown by one more rate
AverageGrown ==
    /\ probe.fn \in {"none", "calculateMovingAverage"}
    /\ \E v \in WindowRates :
          LET values == IF probe.fn = "none" THEN <<v>>
                        ELSE Append(probe.values, v)
          IN /\ Len(values) <= MaxWindow
             /\ probe' = Averaged(values)
    /\ UNCHANGED <<clientVars, serverVars, statsVars, linkVars, reporter,
                   pubCount>>

\* calculateMovingAverage on the window 1, 2, .., n
AverageAscending ==
    /\ probe.fn = "none"
    /\ \E n \in AscendingLengths : probe' = Averaged([i \in 1 .. n |-> i])
    /\ UNCHANGED <<clientVars, serverVars, statsVars, linkVars, reporter,
                   pubCount>>

\* calculateMovingAverage on the window 1, 2, .., n turned round
AverageDescending ==
    /\ probe.fn = "none"
    /\ \E n \in AscendingLengths :
          probe' = Averaged([i \in 1 .. n |-> n + 1 - i])
    /\ UNCHANGED <<clientVars, serverVars, statsVars, linkVars, reporter,
                   pubCount>>

AverageNext ==
    \/ AverageGrown
    \/ AverageAscending
    \/ AverageDescending

(***************************************************************************)
(* Part IV: one client connection from the dataTicker case of main to the  *)
(* collector's database.  The client's connection is the collector's       *)
(* connection 1.  Samples are numbered in the order main builds them.  A   *)
(* stream on the wire carries the number of the sample written to it and   *)
(* what the collector's io.ReadAll will return for it: the whole JSON      *)
(* ("json"), nothing ("empty", the probe stream of connect), or an error   *)
(* or a truncated text ("malformed": the connection broke before the       *)
(* stream's end arrived).                                                  *)
(***************************************************************************)
\* samples main builds in a run
MaxSamples == 3
\* config.Config.Client.ID and Alias of the client
OwnClientID == "a"
OwnAlias == "x"
\* the collector's connection that is the client's
OwnConn == 1

\* a sample sent a second time on a stream of its own
Written_Resent(w, id, body) ==
    w \o <<[id |-> id, body |-> body], [id |-> id, body |-> body]>>

\* sendData: one OpenStreamSync, one Encode, one Close per sample
Written(w, id, body) == Append(w, [id |-> id, body |-> body])

\* streams handed out in any order
Acceptable_AnyOrder(w) == 1 .. Len(w)

\* conn.AcceptStream: the streams of a connection come out in the order
\* the peer opened them
Acceptable(w) == IF w = << >> THEN {} ELSE {1}

\* the wire without its stream number i
Taken(w, i) == [j \in 1 .. Len(w) - 1 |-> IF j < i THEN w[j] ELSE w[j + 1]]

\* a probe stream that carries the client's identity
PayloadOf_ProbeIdentifies(stream) ==
    IF stream.body \in {"json", "empty"}
    THEN [kind |-> "json", client_id |-> OwnClientID,
          tsZero |-> stream.body = "empty"]
    ELSE [kind |-> stream.body]

\* what handleStream decodes from a stream
PayloadOf(stream) ==
    IF stream.body = "json"
    THEN [kind |-> "json", client_id |-> OwnClientID, tsZero |-> FALSE]
    ELSE [kind |-> stream.body]

\* main: the first connect; its probe stream is opened and closed with
\* nothing written.
LinkConnect ==
    /\ FirstConnectStep
    /\ wire' = IF client'.conn = "open"
               THEN Written(wire, 0, "empty")
               ELSE wire
    /\ UNCHANGED <<built, fate, persisted>>

\* main, case <-dataTicker.C: a BandwidthData is built and handed to
\* sendData.  A sample sendData wrote without error is on the wire, whole
\* or, when the connection breaks before the stream's end has arrived, cut
\* short; one whose Encode failed is cut short or not on the wire at all.
SampleReport ==
    /\ built < MaxSamples
    /\ DataStep
    /\ IF ~client.isMonitoring
       THEN UNCHANGED <<wire, built, fate>>
       ELSE /\ built' = built + 1
            /\ fate' = Append(fate, lastCall'.path)
            /\ \E broken \in BOOLEAN :
                  wire' = IF lastCall'.path = "sent"
                          THEN Written(wire, built + 1,
                                       IF broken THEN "malformed" ELSE "json")
                          ELSE IF lastCall'.path = "failed"
                                  /\ lastCall'.written /\ broken
                          THEN Written(wire, built + 1, "malformed")
                          ELSE wire
    /\ UNCHANGED persisted

\* handleConnection of the client's connection: AcceptStream returns the
\* next stream and handleStream runs on it.
LinkDeliver ==
    /\ \E i \in Acceptable(wire) :
       \E regOk \in BOOLEAN, saveOk \in BOOLEAN :
          LET h == handler[OwnConn]
              p == PayloadOf(wire[i])
              r == handleStream(OwnConn, h.clientID, h.alias, clients, p,
                                OwnAlias, regOk, saveOk)
          IN /\ StreamStep(OwnConn, p, OwnAlias, regOk, saveOk)
             /\ persisted' = IF r.saveCalled
                             THEN Append(persisted, [id |-> wire[i].id,
                                                     ok |-> r.saved])
                             ELSE persisted
             /\ wire' = Taken(wire, i)
    /\ lastStream' = NoStream
    /\ UNCHANGED <<stopVars, refreshVars, built, fate>>

LinkNext ==
    \/ LinkConnect
    \/ SampleReport
    \/ Advance
    \/ Accept(OwnConn)
    \/ LinkDeliver

(***************************************************************************)
(* Specifications.                                                         *)
(***************************************************************************)
\* no sample built, nothing on the wire
LinkInit ==
    /\ wire = << >>
    /\ built = 0
    /\ fate = << >>
    /\ persisted = << >>

SideInit ==
    /\ reporter = IdleReporter
    /\ pubCount = 0
    /\ probe = NoProbe

Init == ClientInit /\ ServerInit /\ StatsInit /\ LinkInit /\ SideInit

\* the client process alone
SpecClient == Init /\ [][ClientNext]_vars

\* the collector alone
SpecServer == Init /\ [][ServerNext]_vars

\* the collector, the sweep's callback statement by statement
SpecSweepRace == Init /\ [][SweepRaceNext]_vars

\* the collector's connection handlers, each handleStream on record
SpecSession == Init /\ [][SessionNext]_vars

\* the measurement engine: packet goroutine and statistics goroutine
SpecStats == Init /\ [][StatsNext]_vars

\* the measurement engine call by call
SpecEngine == Init /\ [][EngineNext]_vars

\* the flow tracker between the packet goroutine and the ticks
SpecCache == Init /\ [][CacheNext]_vars

\* the reporter of main beside the measurement engine
SpecReport == Init /\ [][ReportNext]_vars

\* one client connection, from main to the collector's database
SpecDelivery == Init /\ [][LinkNext]_vars

\* isUploadPacket applied to the frames of the packet source
SpecClassify == Init /\ [][ClassifyNext]_vars

\* calculateMovingAverage applied to windows
SpecAverage == Init /\ [][AverageNext]_vars

\* the connection handlers, LastSeen followed write by write
SpecLastSeen == Init /\ [][LastSeenNext]_vars

\* the collector while Stop may be called
SpecShutdown == Init /\ [][ShutdownNext]_vars

\* the same, with goroutines that keep running
SpecShutdownLive == Init /\ [][ShutdownNext]_vars /\ ShutdownFairness

(***************************************************************************)
(* Claims about the client (checked under SpecClient).                     *)
(***************************************************************************)
\* The main goroutine has just made a sendData call from the report tick /
\* from the probe loop of tryReconnect.
JustReported == lastEvent.ev = "data" /\ lastCall.by = "report" /\ sinceCall = 0
JustProbed == lastEvent.ev = "probe"
Connected == client.conn = "open" /\ client.liveConns = 1
Disconnected ==
    ~client.isMonitoring /\ client.conn = "nil" /\ client.liveConns = 0

\* C1: after a successful startup no client operation panics, whatever the
\* sequence of send successes, send failures, threshold breaches, connects
\* and verification runs; a second stop of the measurement engine is safe.
C1_NeverPanics == ~client.panicked /\ pc # "panic"

\* C2: counted from the last successful send or connect, the 5th consecutive
\* failed report leaves the client Disconnected (connection closed and nil,
\* monitoring stopped); after the 1st to 4th it is still Monitoring with its
\* connection.
C2_FailureThreshold ==
    (JustReported /\ lastCall.err) =>
        IF failsSince >= FailureThreshold
        THEN Disconnected /\ pc = "select"
        ELSE client.isMonitoring /\ Connected /\ pc = "select"

\* C3: whenever the client is Monitoring in its main loop (also after a
\* reconnection that followed an earlier stop), a statistics goroutine is
\* alive and stays alive, so CalculateSpeeds keeps being invoked.
C3_TickingResumes ==
    (pc = "select" /\ client.isMonitoring) =>
        (client.monitor.tickTasks > 0 /\ client.monitor.stopChan = "open")

\* C4: a failed verification probe ends the sequence at once with monitoring
\* stopped, the connection dropped and the client Disconnected in its main
\* loop; a passed probe keeps the connection, and after the 5th passed probe
\* the client is Monitoring in its main loop.
C4_Verification ==
    /\ JustProbed =>
          IF lastCall.err
          THEN Disconnected /\ pc = "select"
          ELSE client.isMonitoring /\ Connected /\ pc = "gap"
    /\ (lastEvent.ev = "gap" /\ probeIdx = VerifyProbes) =>
          (pc = "select" /\ client.isMonitoring /\ Connected)

\* C5 as stated: of two calls made less than 500 ms apart while connected
\* and monitoring, exactly one produces a network write.
C5_ExactlyOneWrite ==
    (/\ prevCall.by # "none" /\ prevCall.path # "idle"
     /\ lastCall.path # "idle"
     /\ callGap < SendSpacing)
    => (prevCall.written # lastCall.written)

\* C5 as amended: a call made less than 500 ms after a sample went out
\* without error opens no stream and writes nothing; so of two calls less
\* than 500 ms apart of which the first sent its sample, exactly one writes.
C5_RateLimit ==
    /\ (lastCall.by # "none" /\ lastCall.sentAge < SendSpacing) =>
          (~lastCall.opened /\ ~lastCall.written)
    /\ (/\ prevCall.written /\ ~prevCall.err
        /\ lastCall.by # "none"
        /\ callGap < SendSpacing)
       => (~lastCall.opened /\ ~lastCall.written)

\* C6: a call inside the 500 ms window after the last sample that went out
\* returns no error, opens no stream, and leaves the whole client state
\* (failureCount, lastSendTime, connection, monitoring flag) and the
\* position of the main goroutine unchanged.
C6_DroppedCallFrame ==
    [][ ((DataTick \/ Probe)
         /\ client.isMonitoring /\ client.conn # "nil"
         /\ sinceSent < SendSpacing)
        => (/\ client' = client
            /\ ~lastCall'.err /\ ~lastCall'.opened /\ ~lastCall'.written
            /\ failsSince' = failsSince
            /\ sinceSent' = sinceSent
            /\ pc' \in {pc, "gap"}) ]_vars

\* C7: failureCount is the number of failed sends since the last successful
\* send or connect, and lastSendTime is the time of the last successful
\* send; a send that has just succeeded leaves failureCount = 0.
C7_CounterIsHistory ==
    /\ client.failureCount = failsSince
    /\ client.sinceSend = sinceSent
    /\ client.failureCount <= FailureThreshold
    /\ (lastEvent.ev \in {"data", "probe"} /\ sinceCall = 0
        /\ lastCall.written /\ ~lastCall.err)
       => (client.failureCount = 0 /\ client.sinceSend = 0)

\* C8: a reconnect tick while Monitoring does no connect and changes nothing
\* of the client; a reconnect tick whose connect fails leaves the client
\* Disconnected, without connection, monitoring not started.
C8_SupervisorOnlyWhenDisconnected ==
    [][ ReconnectTick =>
          /\ client.isMonitoring =>
                (/\ client' = client /\ pc' = pc
                 /\ lastEvent'.net = "none")
          /\ (~client.isMonitoring /\ lastEvent'.net # "ok") =>
                (/\ lastEvent'.net \in {"dial failed", "stream failed"}
                 /\ ~client'.isMonitoring
                 /\ client'.conn = "nil" /\ client'.liveConns = 0
                 /\ client'.monitor = client.monitor
                 /\ pc' = "select") ]_vars

\* C9: after a connect() whose dial or probe stream failed the client holds
\* no connection and none is left open; after a connect() that succeeded it
\* holds the new connection and failureCount is 0.  At no time is a
\* connection open that the client does not hold.
C9_ConnectOutcome ==
    /\ client.liveConns = IF client.conn = "nil" THEN 0 ELSE 1
    /\ (lastEvent.ev \in {"first", "reconnect"}
        /\ lastEvent.net \in {"dial failed", "stream failed"})
       => (client.conn = "nil" /\ client.liveConns = 0)
    /\ (lastEvent.ev \in {"first", "reconnect"} /\ lastEvent.net = "ok")
       => (client.conn = "open" /\ client.failureCount = 0)

\* Reached: a report 100 ms after a sample went out was dropped.
C5_Witness ==
    /\ prevCall.written /\ ~prevCall.err
    /\ lastCall.by = "report" /\ lastCall.path = "dropped"
    /\ callGap = 1 /\ lastCall.sentAge = 1

\* Reached: the client has just dropped a report 400 ms after a sample.
C6_Witness ==
    /\ lastEvent.ev = "data" /\ sinceCall = 0
    /\ lastCall.by = "report" /\ lastCall.path = "dropped"
    /\ lastCall.sentAge = SendSpacing - 1
    /\ client.isMonitoring /\ Connected

\* Reached: four failures, then a success, then one failure: the counter is
\* 1 and the client is still Monitoring.
C7_Witness ==
    /\ prevCall.fails = FailureThreshold - 1
    /\ prevCall.written /\ ~prevCall.err
    /\ lastCall.err /\ sinceCall = 0
    /\ client.failureCount = 1
    /\ client.isMonitoring /\ Connected

\* Reached: the reconnect timer fired while the client was Monitoring.
C8_Witness ==
    /\ lastEvent = Event("reconnect", "none")
    /\ client.isMonitoring /\ Connected /\ pc = "select"

\* Reached: after a threshold breach a reconnect dialled, and its probe
\* stream failed.
C9_Witness ==
    /\ lastEvent = Event("reconnect", "stream failed")
    /\ client.failureCount = FailureThreshold
    /\ Disconnected

(***************************************************************************)
(* Claims about the collector (checked under SpecServer).                  *)
(***************************************************************************)
\* C10: the sweep's visit of a session whose now - lastSeen exceeds 5
\* minutes closes its connection and removes it from the registry; the
\* visit of a session at or below 5 minutes leaves the session and the
\* status of its connection as they are; and when a sweep ends no session
\* it had to visit is left that was idle for more than 5 minutes.
C10_Eviction ==
    [][ /\ \A k \in ClientIDs :
             (/\ sweep.pc = "range" /\ sweep'.pc = "range"
              /\ k \in DOMAIN clients
              /\ k \notin sweep.visited /\ k \in sweep'.visited)
             => IF clients[k].seenAge - sweep.nowAge > IdleTimeout
                THEN /\ k \notin DOMAIN clients'
                     /\ connState'[clients[k].conn] = "closed"
                ELSE /\ k \in DOMAIN clients'
                     /\ clients'[k] = clients[k]
                     /\ connState' = connState
        /\ (sweep.pc = "range" /\ sweep'.pc = "wait")
           => \A k \in sweep.todo \cap DOMAIN clients :
                 clients[k].seenAge - sweep.nowAge <= IdleTimeout ]_vars

\* Reached: one sweep has removed a session last seen 6 minutes ago, whose
\* connection is now closed, and has kept one last seen exactly 5 minutes
\* ago, whose connection is open.
C10_Witness ==
    /\ sweep.pc = "range"
    /\ sweep.visited = ClientIDs
    /\ \E k1 \in ClientIDs, k2 \in ClientIDs :
          /\ [id |-> k1, idle |-> IdleTimeout + 1] \in sweep.evicted
          /\ k1 \notin DOMAIN clients
          /\ \E c \in Conns : handler[c].clientID = k1 /\ connState[c] = "closed"
          /\ k2 \in DOMAIN clients
          /\ clients[k2].seenAge - sweep.nowAge = IdleTimeout
          /\ connState[clients[k2].conn] = "open"

\* C11: a registry entry is removed only together with the end of the
\* connection it refers to: whenever a step removes the entry of a clientID,
\* the connection that entry referred to is closed after the step.
C11_OwnEntryOnly ==
    [][ \A k \in DOMAIN clients :
           k \notin DOMAIN clients'
           => connState'[clients[k].conn] = "closed" ]_vars

(***************************************************************************)
(* Claims about the connection handlers (checked under SpecSession, where  *)
(* lastStream tells what the handleStream of the last step did).           *)
(***************************************************************************)
\* C12: for a connection that has been identified, RegisterClient has been
\* called exactly once and exactly one ClientSession has been inserted,
\* however many messages followed.
C12_RegisteredOnce ==
    \A c \in Conns :
       handler[c].clientID # ""
       => (handler[c].regCalls = 1 /\ handler[c].stores = 1)

C15_RejectDropsOneMessage ==
    [][ (lastStream'.kind = "malformed" \/ lastStream'.tsZero)
        => (/\ ~lastStream'.saveCalled
            /\ saved' = saved
            /\ connState' = connState
            /\ DOMAIN clients \subseteq DOMAIN clients'
            /\ lastStream'.kind = "malformed" => clients' = clients
            /\ handler'[lastStream'.conn].pc = "accept"
            /\ connState'[lastStream'.conn] = "open") ]_vars

\* Reached: a zero-timestamp message has just been rejected on a connection
\* that has its session in the registry and has persisted samples before.
C15_Witness ==
    /\ lastStream.tsZero /\ ~lastStream.stored
    /\ LET c == lastStream.conn IN
       /\ handler[c].clientID \in DOMAIN clients
       /\ clients[handler[c].clientID].conn = c
       /\ handler[c].clientID \in saved
       /\ connState[c] = "open" /\ handler[c].pc = "accept"

\* C16: a RegisterClient or SaveBandwidthData call that returns an error
\* closes no connection, removes no session from the registry, and leaves
\* the handler accepting the next stream of its connection.
C16_PersistenceFailureKeepsSession ==
    [][ ((lastStream'.regCalled /\ ~lastStream'.regOk)
         \/ (lastStream'.saveCalled /\ ~lastStream'.saveOk))
        => (/\ connState' = connState
            /\ DOMAIN clients \subseteq DOMAIN clients'
            /\ handler'[lastStream'.conn].pc = "accept"
            /\ connState'[lastStream'.conn] = "open") ]_vars

\* Reached: SaveBandwidthData has just failed on a connection whose session
\* is in the registry; connection and session are still there.
C16_Witness ==
    /\ lastStream.saveCalled /\ ~lastStream.saveOk
    /\ LET c == lastStream.conn IN
       /\ handler[c].clientID \in DOMAIN clients
       /\ clients[handler[c].clientID].conn = c
       /\ connState[c] = "open" /\ handler[c].pc = "accept"

\* C14: for every clientID the LastSeen of its registry entry never moves
\* back, over updates by messages and over insertions of a new entry.  (The
\* registry is a map keyed by clientID: it holds at most one entry per
\* clientID.)
C14_LastSeenNeverMovesBack ==
    [][ \A k \in ClientIDs : lastSeenAt'[k] >= lastSeenAt[k] ]_vars

(***************************************************************************)
(* Claims about shutdown (checked under SpecShutdown, SpecShutdownLive).   *)
(***************************************************************************)
\* C17: once Stop has returned, the accept loop holds no connection it has
\* still to hand to a handler, no connection is open, and no handler is
\* running.
C17_StopLeavesNothingRunning ==
    stopper.pc = "returned"
    => (/\ acceptor.pc # "spawn"
        /\ \A c \in Conns : connState[c] # "open"
        /\ \A c \in Conns : handler[c].pc \notin {"accept", "stream"})

\* C18: once the context is cancelled, the accept loop returns, every
\* handler exits, the sweep exits and Stop returns.
C18_CancellationLiveness ==
    (ctx = "cancelled")
    ~> (/\ acceptor.pc = "done"
        /\ \A c \in Conns : handler[c].pc \in {"none", "done"}
        /\ sweep.pc = "exit"
        /\ stopper.pc = "returned")

\* Reached: Stop has returned after a shutdown that found two handlers
\* running, one of them with a session in the registry; all is closed.
C18_Witness ==
    /\ stopper.pc = "returned"
    /\ stopper.visited # {}
    /\ acceptor.pc = "done"
    /\ sweep.pc = "exit"
    /\ \A c \in Conns : handler[c].pc = "done" /\ connState[c] = "closed"
    /\ wg = 0

(***************************************************************************)
(* Claims about the measurement engine (checked under SpecStats).          *)
(***************************************************************************)
\* C19: whenever no CalculateSpeeds is under way, the bytes and the packets
\* Update has added are, per direction, those CalculateSpeeds has turned
\* into samples plus those still in the counters: no frame is lost and none
\* is counted in two ticks.
C19_NoLostOrDoubleCounted ==
    tickTask.pc = "wait"
    => \A d \in Dirs :
          /\ fed.bytes[d] = pub.bytes[d] + bs.bytes[d]
          /\ fed.packets[d] = pub.packets[d] + bs.packets[d]

\* Reached: upload frames went into a tick's sample, a later frame is in the
\* counters for the next tick, and an Update is waiting for the mutex the
\* running CalculateSpeeds holds.
C19_Witness ==
    /\ pub.bytes.up > 0 /\ bs.bytes.up > 0
    /\ fed.bytes.up = pub.bytes.up + bs.bytes.up
    /\ mutex = "tick" /\ tickTask.pc = "read" /\ packetTask.pc = "lock"

\* C20 as stated: after every invocation of CalculateSpeeds the four
\* counters are zero, and an invocation with duration <= 0 publishes no new
\* nonzero rate.
C20_AlwaysResets ==
    lastCalc.ran
    => (/\ bs.bytes = Zero /\ bs.packets = Zero
        /\ lastCalc.duration <= 0 => bs.speed = lastCalc.before.speed)

\* C20, amended: after an invocation of CalculateSpeeds with duration > 0
\* the four counters are zero; an invocation with duration <= 0 leaves the
\* counters as they are and publishes nothing (speeds, histories and
\* average packet sizes as before).
C20_ResetsWhenElapsed ==
    lastCalc.ran
    => IF lastCalc.duration > 0
       THEN bs.bytes = Zero /\ bs.packets = Zero
       ELSE /\ bs.bytes = lastCalc.before.bytes
            /\ bs.packets = lastCalc.before.packets
            /\ bs.speed = lastCalc.before.speed
            /\ bs.history = lastCalc.before.history
            /\ bs.avgSize = lastCalc.before.avgSize

\* Reached: an invocation with duration > 0 has just reset counters that
\* held frames of both directions.
C20_Witness ==
    /\ lastCalc.ran /\ lastCalc.duration > 0
    /\ lastCalc.before.packets.up > 0 /\ lastCalc.before.packets.down > 0
    /\ bs.bytes = Zero /\ bs.packets = Zero

(***************************************************************************)
(* Claims about direction classification (checked under SpecClassify).     *)
(***************************************************************************)
\* the LocalAddressSet: an interface address, or an address inside the
\* subnet of one
LocalAddressSet ==
    {a \in Addrs : a \in LocalIPs \/ \E n \in LocalNetworks : a[1] = n}

Classified == probe.fn = "isUploadPacket" /\ probe.frame.ip

\* C23: a frame whose source is in the LocalAddressSet and whose destination
\* is not is classified upload; a frame whose destination is in it and whose
\* source is not is classified download; the ports play no part.
C23_OneLocalSide ==
    Classified
    => LET fr == probe.frame IN
       /\ (fr.src \in LocalAddressSet /\ fr.dst \notin LocalAddressSet)
             => probe.upload
       /\ (fr.dst \in LocalAddressSet /\ fr.src \notin LocalAddressSet)
             => ~probe.upload

\* Reached: a frame from elsewhere to a neighbour in the local subnet, with
\* the ports of a request to a server, is classified download.
C23_Witness ==
    /\ Classified
    /\ probe.frame.src = <<2, 1>> /\ probe.frame.dst = <<1, 2>>
    /\ probe.frame.transport = "tcp"
    /\ probe.frame.srcPort = 40000 /\ probe.frame.dstPort = 80
    /\ ~probe.upload

\* C24: a frame whose source and destination are both in the LocalAddressSet
\* is classified upload exactly when its destination port is below 1024 and
\* its source port is at least 1024; without a TCP or UDP layer the ports
\* are 0 and 0 and the frame is classified download.
C24_BothLocal ==
    (Classified /\ probe.frame.src \in LocalAddressSet
                /\ probe.frame.dst \in LocalAddressSet)
    => LET fr == probe.frame IN
       IF fr.transport = "none" THEN ~probe.upload
       ELSE probe.upload <=> (fr.dstPort < 1024 /\ fr.srcPort >= 1024)

\* Reached: both sides local, the destination port 1024 itself, the source
\* port above it: download.
C24_Witness ==
    /\ Classified
    /\ probe.frame.src = <<1, 1>> /\ probe.frame.dst = <<1, 2>>
    /\ probe.frame.transport = "udp"
    /\ probe.frame.srcPort = 40000 /\ probe.frame.dstPort = 1024
    /\ ~probe.upload

(***************************************************************************)
(* Claims about the smoothing function (checked under SpecAverage).        *)
(***************************************************************************)
RECURSIVE Total(_, _)
Total(values, i) == IF i = 0 THEN 0 ELSE values[i] + Total(values, i - 1)

\* the values without the position i
Without(values, i) ==
    [j \in 1 .. Len(values) - 1 |-> IF j < i THEN values[j] ELSE values[j + 1]]

LowestAt(values) ==
    CHOOSE i \in 1 .. Len(values) :
       \A j \in 1 .. Len(values) : values[i] <= values[j]

HighestAt(values) ==
    CHOOSE i \in 1 .. Len(values) :
       \A j \in 1 .. Len(values) : values[i] >= values[j]

\* the values with the k lowest and the k highest taken out
RECURSIVE Trimmed(_, _)
Trimmed(values, k) ==
    IF k = 0 THEN values
    ELSE LET rest == Without(values, LowestAt(values))
         IN Trimmed(Without(rest, HighestAt(rest)), k - 1)

\* C25: the smoothed rate of a window of n >= 1 values is the mean of the
\* values left when the floor(n/10) lowest and the floor(n/10) highest are
\* removed (n >= 10), or of all values (n < 10); the window 1..10 gives 5.5;
\* the window itself is in the order it had.
C25_TrimmedMean ==
    probe.fn = "calculateMovingAverage"
    => LET values == probe.values
           n == Len(values)
           k == IF n >= 10 THEN n \div 10 ELSE 0
           kept == Trimmed(values, k)
       IN /\ probe.mean.n = n - 2 * k
          /\ probe.mean.sum = Total(kept, Len(kept))
          /\ values = [i \in 1 .. 10 |-> i]
                => 10 * probe.mean.sum = 55 * probe.mean.n
          /\ probe.after = values

\* Reached: a window of ten values that is not in ascending order, whose
\* lowest and highest value differ from the rest, has been averaged.
C25_Witness ==
    /\ probe.fn = "calculateMovingAverage"
    /\ Len(probe.values) = 10
    /\ probe.values[1] = 10 /\ probe.values[10] = 1
    /\ probe.mean.n = 8

(***************************************************************************)
(* Claims about the measurement engine call by call (checked under         *)
(* SpecEngine).                                                            *)
(***************************************************************************)
\* the raw rate CalculateSpeeds computes from b's byte counter of direction d
RawRate(b, d, duration) == (b.bytes[d] * RateScale) \div duration

\* C21: neither history ever holds more than HistorySize samples; a tick
\* appends its raw rate at the end, and when the history was full the
\* oldest sample, and no other, is gone, the rest in the order it had.
C21_HistoryBounded ==
    /\ \A d \in Dirs : Len(bs.history[d]) <= HistorySize
    /\ (lastCalc.ran /\ lastCalc.duration > 0)
       => \A d \in Dirs :
             LET old == lastCalc.before.history[d]
                 rate == RawRate(lastCalc.before, d, lastCalc.duration)
             IN bs.history[d] =
                   IF Len(old) < HistorySize THEN old \o <<rate>>
                   ELSE SubSeq(old, 2, Len(old)) \o <<rate>>

\* Reached: a tick on a full upload history whose oldest sample differs
\* from the one after it and from the new raw rate.
C21_Witness ==
    /\ lastCalc.ran /\ lastCalc.duration > 0
    /\ Len(lastCalc.before.history.up) = HistorySize
    /\ lastCalc.before.history.up[1] # lastCalc.before.history.up[2]
    /\ lastCalc.before.history.up[1]
          # RawRate(lastCalc.before, "up", lastCalc.duration)
    /\ bs.history.up[1] = lastCalc.before.history.up[2]

\* C22: the flow tracker never holds more than FlowCap flows.
C22_CacheWithinCap == Cardinality(bs.flows) <= FlowCap

\* C30: an invocation of CalculateSpeeds with duration <= 0 leaves the whole
\* object as it was: counters, histories, smoothed speeds, average packet
\* sizes, LastUpdate, the flow tracker and its StartTime.
C30_NoOpWhenNotElapsed ==
    (lastCalc.ran /\ lastCalc.duration <= 0) => bs = lastCalc.before

\* Reached: an invocation with duration 0 on an object with frames counted,
\* samples in the history and a flow tracker that is due for replacement.
C30_Witness ==
    /\ lastCalc.ran /\ lastCalc.duration = 0
    /\ bs.packets.up > 0
    /\ Len(bs.history.up) > 0 /\ bs.speed.up.sum > 0
    /\ bs.flows # {} /\ bs.cacheOld

(***************************************************************************)
(* Claims about who touches the BandwidthStats object, and when.           *)
(***************************************************************************)
\* C28 (checked under SpecStats): the packet goroutine never puts a flow ID
\* into the flow tracker while CalculateSpeeds is inside its critical
\* section, where the tracker is replaced.
C28_NoInsertDuringTick ==
    [][frameCount' # frameCount => mutex # "tick"]_vars

\* C29 (checked under SpecReport): the four values of a BandwidthData handed
\* to sendData come from one and the same CalculateSpeeds invocation.
C29_ConsistentSnapshot ==
    reporter.pc = "send"
    => \A i, j \in 1 .. Len(reporter.from) : reporter.from[i] = reporter.from[j]

(***************************************************************************)
(* Claims about delivery (checked under SpecDelivery).                     *)
(***************************************************************************)
StreamIds(w) == {w[i].id : i \in 1 .. Len(w)}
\* the samples SaveBandwidthData was called with, and those it stored
SaveCalls(log) == {log[i].id : i \in 1 .. Len(log)}
StoredIds ==
    {persisted[i].id : i \in {j \in 1 .. Len(persisted) : persisted[j].ok}}

\* C26: SaveBandwidthData is called at most once for a sample, and only for
\* a sample sendData wrote without error; a sample is written to at most
\* one stream; the only sample that enters the wire in a step is the one
\* built in that step, and a sample that has left the wire without a
\* SaveBandwidthData call never gets one afterwards.
C26_AtMostOnce ==
    /\ [](/\ \A i, j \in 1 .. Len(persisted) :
                i # j => persisted[i].id # persisted[j].id
          /\ \A i, j \in 1 .. Len(wire) : i # j => wire[i].id # wire[j].id
          /\ \A id \in SaveCalls(persisted) :
                /\ id \in 1 .. built
                /\ fate[id] = "sent"
                /\ id \notin StreamIds(wire))
    /\ [][/\ StreamIds(wire') \subseteq StreamIds(wire) \cup {built'}
          /\ \A id \in 1 .. built :
                (id \notin StreamIds(wire) /\ id \notin SaveCalls(persisted))
                   => id \notin SaveCalls(persisted')]_vars

\* Reached: of three samples one was dropped by the spacing test, one was
\* stored, and one was sent and rejected by the collector; nothing is left
\* on the wire.
C26_Witness ==
    /\ built = 3 /\ wire = << >>
    /\ \E i \in 1 .. 3 : fate[i] = "dropped"
    /\ \E i, j \in 1 .. 3 :
          /\ i # j /\ fate[i] = "sent" /\ fate[j] = "sent"
          /\ i \in StoredIds /\ j \notin SaveCalls(persisted)

\* C27: SaveBandwidthData is called for the samples of the connection in
\* the order the client sent them, so they are stored in that order.
C27_StoredInSendOrder ==
    \A i, j \in 1 .. Len(persisted) :
       i < j => persisted[i].id < persisted[j].id

\* Reached: two samples stored, the second while a later stream of the
\* connection was already waiting to be accepted.
C27_Witness ==
    /\ Len(persisted) = 2
    /\ persisted[1].ok /\ persisted[2].ok
    /\ wire # << >>
    /\ \A i \in 1 .. Len(wire) : wire[i].id > persisted[2].id

(***************************************************************************)
(* Claims about the measurement engine and the monitoring toggle (checked  *)
(* under SpecClient).                                                      *)
(***************************************************************************)
\* C31: the engine follows the toggle: while the main loop waits with
\* monitoring stopped, no packet goroutine consumes frames, and while it
\* waits with monitoring started exactly one does.
C31_EngineFollowsToggle ==
    (pc = "select" /\ ~client.panicked) =>
        client.monitor.packetTasks = (IF client.isMonitoring THEN 1 ELSE 0)

(***************************************************************************)
(* Claims about the default of the classification (checked under           *)
(* SpecClassify).                                                          *)
(***************************************************************************)
\* C32: a frame without an IPv4 or IPv6 layer is classified upload, and so
\* is a frame whose source and destination are both outside the
\* LocalAddressSet, whatever its ports.
C32_DefaultUpload ==
    probe.fn = "isUploadPacket"
    => LET fr == probe.frame IN
       /\ ~fr.ip => probe.upload
       /\ (fr.ip /\ fr.src \notin LocalAddressSet
                 /\ fr.dst \notin LocalAddressSet) => probe.upload

\* Reached: a frame between two hosts elsewhere, with the ports of a reply
\* from a server, is classified upload.
C32_Witness ==
    /\ Classified
    /\ probe.frame.src = <<2, 1>> /\ probe.frame.dst = <<2, 2>>
    /\ probe.frame.transport = "tcp"
    /\ probe.frame.srcPort = 80 /\ probe.frame.dstPort = 40000
    /\ probe.upload

(***************************************************************************)
(* Claims about Update and the average packet size (checked under          *)
(* SpecStats and SpecEngine).                                              *)
(***************************************************************************)
Opposite(d) == IF d = "up" THEN "down" ELSE "up"

\* C33 (checked under SpecStats): the step in which Update counts a frame
\* adds the frame's length to the byte counter and 1 to the packet counter
\* of the frame's direction; the counters of the other direction, the two
\* histories, the published speeds, the average packet sizes and LastUpdate
\* stay as they are.
C33_UpdateOneDirection ==
    [][(packetTask.pc = "count" /\ packetTask'.pc = "recv")
       => LET d == packetTask.dir
              o == Opposite(packetTask.dir)
          IN /\ bs'.bytes[d] = bs.bytes[d] + packetTask.len
             /\ bs'.packets[d] = bs.packets[d] + 1
             /\ bs'.bytes[o] = bs.bytes[o]
             /\ bs'.packets[o] = bs.packets[o]
             /\ bs'.history = bs.history
             /\ bs'.speed = bs.speed
             /\ bs'.avgSize = bs.avgSize
             /\ bs'.sinceUpdate = bs.sinceUpdate]_vars

\* Reached: after a tick has published, Update has counted one download
\* frame and nothing else.
C33_Witness ==
    /\ packetTask.pc = "recv" /\ tickTask.pc = "wait"
    /\ bs.packets = [up |-> 0, down |-> 1]
    /\ bs.bytes.up = 0 /\ bs.bytes.down > 0
    /\ Len(bs.history.down) >= 1

\* two quotients kept as numerator and denominator are the same number
SameQuotient(q, r) == q.bytes * r.packets = r.bytes * q.packets

\* C34 (checked under SpecEngine): after a CalculateSpeeds invocation with
\* duration > 0, the average packet size of a direction is the bytes of the
\* window divided by its packets if the window had packets, and the value
\* it had before the invocation if it had none; each direction by itself.
C34_AvgPacketSize ==
    (lastCalc.ran /\ lastCalc.duration > 0)
    => \A d \in Dirs :
          IF lastCalc.before.packets[d] > 0
          THEN /\ bs.avgSize[d].packets > 0
               /\ SameQuotient(bs.avgSize[d],
                               [bytes |-> lastCalc.before.bytes[d],
                                packets |-> lastCalc.before.packets[d]])
          ELSE bs.avgSize[d] = lastCalc.before.avgSize[d]

\* Reached: a window with upload packets only, after a window that had set
\* the download average: the upload average is new, the download average
\* is the earlier one.
C34_Witness ==
    /\ lastCalc.ran /\ lastCalc.duration > 0
    /\ lastCalc.before.packets.up > 0 /\ lastCalc.before.packets.down = 0
    /\ lastCalc.before.avgSize.down.bytes > 0
    /\ bs.avgSize.down.bytes > 0
    /\ bs.avgSize.up.bytes > 0

(***************************************************************************)
(* Claims about the order of the steps of handleStream (checked under      *)
(* SpecSession).                                                           *)
(***************************************************************************)
\* C35: a well-formed message with a zero timestamp identifies its
\* connection if it was not identified (RegisterClient is called and a
\* ClientSession is inserted), sets the LastSeen of the connection's
\* session, and is not passed to SaveBandwidthData; an empty or malformed
\* payload causes no RegisterClient call, no insertion, no LastSeen update
\* and no SaveBandwidthData call.
C35_StepOrder ==
    [][ /\ (lastStream'.kind = "json" /\ lastStream'.tsZero)
           => (/\ ~lastStream'.saveCalled
               /\ saved' = saved
               /\ handler[lastStream'.conn].clientID = ""
                  => (lastStream'.regCalled /\ lastStream'.stored)
               /\ lastStream'.refreshed)
        /\ lastStream'.kind \in {"empty", "malformed"}
           => (/\ ~lastStream'.regCalled /\ ~lastStream'.stored
               /\ ~lastStream'.refreshed /\ ~lastStream'.saveCalled
               /\ clients' = clients
               /\ registered' = registered
               /\ saved' = saved) ]_vars

(***************************************************************************)
(* Claims about the sweep running beside the handlers (checked under       *)
(* SpecSweepRace).                                                         *)
(***************************************************************************)
\* C36: every session the sweep removes is idle at the moment the sweep
\* closes its connection: its now - LastSeen exceeds 5 minutes in the state
\* in which CloseWithError and Delete are carried out.
C36_EvictsOnlyIdle ==
    [][ (sweep.pc = "close" /\ sweep'.pc = "range")
        => \A k \in DOMAIN clients \ DOMAIN clients' :
              IsIdle(sweep.nowAge, clients[k].seenAge) ]_vars

(***************************************************************************)
(* Claims about sessions and persisted samples (checked under SpecSession). *)
(***************************************************************************)
\* C37: when a sample of an open connection has just been persisted, the
\* registry holds a ClientSession under the connection's clientID, and that
\* session refers to this connection.
C37_PersistingHasSession ==
    (lastStream.saveCalled /\ lastStream.saveOk
        /\ connState[lastStream.conn] = "open")
    => LET c == lastStream.conn
           id == handler[c].clientID
       IN /\ id \in DOMAIN clients
          /\ clients[id].conn = c

(***************************************************************************)
(* Claims about the client's state at its main loop (checked under         *)
(* SpecClient).                                                            *)
(***************************************************************************)
\* C38: whenever the main goroutine waits in its select, isMonitoring is
\* true exactly when conn is not nil; and a report tick that finds the
\* client Disconnected opens no stream, writes nothing, returns no error
\* and leaves failureCount as it is (the step is told by lastEvent turning
\* to "data").
C38_MonitoringIffConnected ==
    /\ [](pc = "select" => (client.isMonitoring <=> client.conn # "nil"))
    /\ [][ (pc = "select" /\ lastEvent.ev # "data" /\ lastEvent'.ev = "data"
               /\ (~client.isMonitoring \/ client.conn = "nil"))
           => (/\ client' = client
               /\ failsSince' = failsSince
               /\ sinceSent' = sinceSent
               /\ lastCall' = lastCall
               /\ pc' = "select") ]_vars

\* Reached: the first connect has failed and the report tick has fired on
\* the Disconnected client: no sendData call has been observed, no failure
\* counted.
C38_Witness ==
    /\ pc = "select"
    /\ lastEvent = Event("data", "none")
    /\ Disconnected
    /\ lastCall = NoCall
    /\ client.failureCount = 0 /\ failsSince = 0

(***************************************************************************)
(* Claims about the probe stream of connect (checked under SpecDelivery;   *)
(* the probe stream is the stream numbered 0).                             *)
(***************************************************************************)
\* C39: the step in which the collector handles the probe stream calls
\* neither RegisterClient nor SaveBandwidthData, identifies no connection
\* and leaves the registry and the database as they are; and whenever the
\* registry holds a session, a sample that sendData wrote has been taken
\* off the wire by the collector.
C39_ProbeHasNoEffect ==
    /\ [](/\ 0 \notin SaveCalls(persisted)
          /\ DOMAIN clients # {}
             => \E id \in 1 .. built :
                   fate[id] = "sent" /\ id \notin StreamIds(wire))
    /\ [][ (wire # << >> /\ wire[1].id = 0 /\ wire' = Tail(wire))
           => (/\ handler'[OwnConn].regCalls = handler[OwnConn].regCalls
               /\ handler'[OwnConn].clientID = handler[OwnConn].clientID
               /\ handler'[OwnConn].stores = handler[OwnConn].stores
               /\ clients' = clients
               /\ registered' = registered
               /\ saved' = saved
               /\ persisted' = persisted) ]_vars

\* Reached: the collector has handled the probe stream of the client's
\* connection and has no session yet, while the stream of the first sample
\* waits on the wire.
C39_Witness ==
    /\ client.conn = "open" /\ connState[OwnConn] = "open"
    /\ handler[OwnConn].pc = "accept"
    /\ wire # << >> /\ wire[1].id = 1 /\ wire[1].body = "json"
    /\ clients = << >> /\ registered = {}
    /\ handler[OwnConn].clientID = "" /\ handler[OwnConn].regCalls = 0
    /\ persisted = << >>

(***************************************************************************)
(* Claims about failed sends and the spacing (checked under SpecClient).   *)
(***************************************************************************)
\* C40: a sendData call that returns an error (the observer's count of
\* failed calls goes up by one) leaves lastSendTime as it is and adds one to
\* failureCount; and the call that follows a failed call is never dropped
\* by the spacing test, however soon it comes: it attempts the send.
C40_FailureKeepsSendTime ==
    /\ []((prevCall.err /\ lastCall.by # "none")
          => lastCall.path \in {"failed", "sent"})
    /\ [][ failsSince' = failsSince + 1
           => (/\ client'.sinceSend = client.sinceSend
               /\ client'.failureCount = client.failureCount + 1) ]_vars

\* Reached: two sends have failed one right after the other, less than the
\* spacing apart, and both have been counted.
C40_Witness ==
    /\ prevCall.err /\ lastCall.err
    /\ callGap < SendSpacing
    /\ lastCall.path = "failed"
    /\ client.failureCount = 2 /\ failsSince = 2
    /\ pc = "select"

====
